---- MODULE Spec2Model ----
(***************************************************************************)
(* The request handlers of the repository.  Two of them poll a remote      *)
(* long-running job:                                                       *)
(*   POST /api/file-search-stores/[storeName]/import   (import/route.ts)   *)
(*   POST /api/upload                                  (upload/route.ts)   *)
(* the others make their calls to the remote services one after the other: *)
(*   GET, DELETE /api/files                            (files/route.ts)    *)
(*   POST, GET, DELETE /api/file-search-stores         (part_002)          *)
(*   POST /api/query                                   (part_004)          *)
(*   POST of the slide generation route                (part_003)          *)
(* One request is followed from its arrival to its response.  The remote   *)
(* service is the environment: what a call returns (or throws) is chosen   *)
(* nondeterministically.  Further specifications follow two requests in    *)
(* flight at once (ConcSpec) and the components of the page (UISpec).      *)
(***************************************************************************)
EXTENDS Integers, Sequences, FiniteSets, TLC

VARIABLES
  route,        \* which handler serves the request: "none", "import", "upload"
  request,      \* what the caller sent: the JSON body and path parameter, or the form data
  pc,           \* position of the handler in its code
  fileName,     \* import: const fileName (line 21); upload: the loop's fileName (line 41)
  current,      \* import: let current (line 44)
  currentFile,  \* upload: let currentFile (line 35)
  attempts,     \* let attempts (import line 45, upload line 36)
  response,     \* the NextResponse returned to the caller, NoResponse before
  obs,          \* observation of the session: calls made, delays, results seen
  work,         \* locals of the handlers that do not poll, and process.env as they read it
  other,        \* the locals of a second request in flight, suspended at an await
  ui            \* state of the page's components (FileList.tsx, FileUpload.tsx)

vars == <<route, request, pc, fileName, current, currentFile, attempts, response, obs,
          work, other, ui>>

----------------------------------------------------------------------------
(* JavaScript values *)

Undefined == [t |-> "undefined"]
Str(s) == [t |-> "string", v |-> s]
Bool(b) == [t |-> "boolean", v |-> b]

\* JSON serialisation and object literals as they reach the caller: a property
\* whose value is undefined is left out.
DropUndefined(f) == [k \in {x \in DOMAIN f : f[x].t # "undefined"} |-> f[k]]
Obj(f) == [t |-> "object", props |-> DropUndefined(f)]

\* o.k for a value o: undefined when o is no object or has no such property
Prop(o, k) ==
  IF o.t = "object" /\ k \in DOMAIN o.props THEN o.props[k] ELSE Undefined

Null == [t |-> "null"]
Num(n) == [t |-> "number", v |-> n]
Arr(items) == [t |-> "array", items |-> items]

\* ToBoolean
Truthy(x) ==
  CASE x.t \in {"undefined", "null"} -> FALSE
    [] x.t = "number" -> x.v # 0
    [] x.t = "string" -> x.v # ""
    [] x.t = "boolean" -> x.v
    [] OTHER -> TRUE

\* a || b
Or(a, b) == IF Truthy(a) THEN a ELSE b

\* JSON.stringify of the error objects the remote is modelled to send
\* (objects with at most a string property "message")
JsonStringify(o) ==
  IF o.t = "object"
    THEN IF "message" \in DOMAIN o.props
           THEN Str("{\"message\":\"" \o o.props["message"].v \o "\"}")
           ELSE Str("{}")
    ELSE Undefined

\* String.prototype.includes
Includes(s, sub) ==
  \E i \in 1..(Len(s) - Len(sub) + 1) : SubSeq(s, i, i + Len(sub) - 1) = sub

----------------------------------------------------------------------------
(* What callers send and what the remote service may answer *)

maxAttempts == 30
importDelayMs == 5000
uploadDelayMs == 1000

NoResponse == [status |-> 0, body |-> << >>]

\* other when requests are served one at a time: there is no second request
NoOther == [pc |-> "none"]
\* two requests are followed at once; the callers and the remote service are then
\* taken from smaller sets
Concurrent == other # NoOther

\* import: the JSON body is unreadable, or carries fileUri (possibly absent or empty)
FileUris ==
  IF Concurrent THEN {Undefined, Str("https://g/v1beta/files/abc")}
  ELSE {Undefined, Str(""), Str("https://g/v1beta/files/abc"), Str("gs://b/doc.pdf"),
        Str("/files//files/b")}
StoreNames ==
  IF Concurrent THEN {"fileSearchStores%2Fkb"}
  ELSE {"fileSearchStores%2Fkb", "fileSearchStores%2"}
ImportRequests ==
  {[malformed |-> TRUE, storeName |-> "fileSearchStores%2Fkb"]} \cup
  [malformed : {FALSE}, fileUri : FileUris, storeName : StoreNames]

\* upload: the form data is unreadable, or carries a file (possibly absent)
NoFile == [present |-> FALSE]
Files ==
  {NoFile} \cup
  [present : {TRUE}, name : {"doc.pdf"},
   type : IF Concurrent THEN {"application/pdf"} ELSE {"", "application/pdf"}]
UploadRequests ==
  {[malformed |-> TRUE]} \cup [malformed : {FALSE}, file : Files]

\* messages of errors thrown by the SDK when a call fails in transport
ErrorOf(m) == [t |-> "Error", message |-> m]
Thrown == {ErrorOf(Str("fetch failed"))}

\* Operation objects ai.fileSearchStores.importFile / ai.operations.get may return
RemoteMessages == {"", "quota exceeded", "Import timeout", "File processing timeout"}
ErrorObjects ==
  {Obj([message |-> Undefined])} \cup {Obj([message |-> Str(m)]) : m \in RemoteMessages}
OperationErrors ==
  {Undefined, Str(""), Str("quota exceeded"), Str("Import timeout")} \cup ErrorObjects
Operations ==
  IF Concurrent
    THEN [name : {Str("operations/a")},
          done : {Bool(FALSE), Bool(TRUE)},
          error : {Undefined, Str("quota exceeded")},
          response : {Str("documents/d1")}]
    ELSE [name : {Str("operations/a"), Str("operations/b")},
          done : {Undefined, Bool(FALSE), Bool(TRUE)},
          error : OperationErrors,
          response : {Undefined, Str("documents/d1")}]

\* File objects ai.files.upload / ai.files.get may return
FileStates == {"STATE_UNSPECIFIED", "PROCESSING", "ACTIVE", "FAILED"}
RemoteFiles ==
  [name : IF Concurrent THEN {Str("files/a")}
          ELSE {Undefined, Str("files/a"), Str("files/b")},
   state : IF Concurrent THEN {"PROCESSING", "ACTIVE", "FAILED"} ELSE FileStates,
   error : IF Concurrent THEN {Undefined} ELSE {Undefined} \cup ErrorObjects,
   uri : {Str("https://g/v1beta/files/a")},
   mimeType : {Str("application/pdf")},
   sizeBytes : IF Concurrent THEN {Str("10")} ELSE {Str("10"), Str("20")},
   displayName : {Str("doc.pdf")}]

----------------------------------------------------------------------------
(* Observation of one session (not program state): what was called and seen *)

\* the calls the handlers make to the remote services
ExternalCalls ==
  {"files.upload", "files.get", "files.list", "files.delete",
   "fileSearchStores.importFile", "operations.get",
   "fileSearchStores.create", "fileSearchStores.list", "fileSearchStores.delete",
   "generateContent.answer", "generateContent.slides",
   "presentations.create", "presentations.batchUpdate"}

ObsInit ==
  [calls |-> [c \in ExternalCalls |-> 0], \* calls issued, by the method called
   submitCalls |-> 0,      \* ai.fileSearchStores.importFile / ai.files.upload calls issued
   submitted |-> Undefined, \* the argument of that call
   refreshCalls |-> 0,     \* ai.operations.get / ai.files.get calls issued
   outstanding |-> 0,      \* remote calls issued and not yet returned
   sleepStarts |-> 0,      \* setTimeout delays started
   delays |-> 0,           \* completed setTimeout delays
   slept |-> 0,            \* their total, in ms
   initialKind |-> "none", \* status of the Operation the submission returned
   initialTerminal |-> FALSE, \* import: it had done set; upload: it was not PROCESSING
   initialName |-> Undefined,
   lastKey |-> Undefined,  \* the name the latest refresh call was keyed by
   renamed |-> FALSE,      \* a refresh result carried another name than the submission's
   results |-> << >>,      \* status of each refresh result, in order
   last |-> Undefined,     \* the latest refresh result
   unnamed |-> FALSE,      \* upload: a PROCESSING file without a name was seen
   responses |-> 0,        \* responses returned to the caller
   exit |-> "none"]        \* the return statement that produced the response

\* The status of an Operation in the vocabulary of the specification (section 3):
\* import: failed when it has an error, done when done is set without error;
\* upload: by the file state.
ImportKind(op) ==
  IF Truthy(op.error) THEN "failed"
  ELSE IF Truthy(op.done) THEN "done" ELSE "pending"
UploadKind(file) ==
  CASE file.state = "PROCESSING" -> "pending"
    [] file.state = "ACTIVE" -> "done"
    [] file.state = "FAILED" -> "failed"
    [] OTHER -> "other"

Responded(o, exit) == [o EXCEPT !.responses = @ + 1, !.exit = exit]

\* a call to the remote service is issued; it has returned or thrown
Called(o, c) == [o EXCEPT !.calls[c] = @ + 1, !.outstanding = @ + 1]
Returned(o) == [o EXCEPT !.outstanding = @ - 1]

\* NextResponse.json(body, { status })
NextResponseJson(body, status) == [status |-> status, body |-> DropUndefined(body)]

----------------------------------------------------------------------------
(* POST /api/file-search-stores/[storeName]/import *)

Char(s, i) == SubSeq(s, i, i)

\* fileUri.match(/files\/[^/]+/): the leftmost "files/" that is followed by a
\* character other than "/", with the longest run of such characters; null if none
MatchStarts(s) ==
  {i \in 1..Len(s) : i + 6 <= Len(s) /\ SubSeq(s, i, i + 5) = "files/" /\ Char(s, i + 6) # "/"}
RunEnd(s, i) ==
  CHOOSE j \in i..Len(s) :
    /\ \A k \in i..j : Char(s, k) # "/"
    /\ j = Len(s) \/ Char(s, j + 1) = "/"
MatchFiles(s) ==
  IF MatchStarts(s) = {} THEN Undefined
  ELSE LET i == CHOOSE x \in MatchStarts(s) : \A y \in MatchStarts(s) : x <= y
       IN Str(SubSeq(s, i, RunEnd(s, i + 6)))

\* lines 21-27
ImportFileName(fileUri) ==
  IF Includes(fileUri.v, "/files/")
    THEN LET match == MatchFiles(fileUri.v)
         IN IF Truthy(match) THEN match ELSE fileUri
    ELSE fileUri

\* decodeURIComponent on the escapes the modelled store names use; a "%" not
\* followed by two hexadecimal digits throws URIError
PercentTable == ("2F" :> "/") @@ ("2f" :> "/") @@ ("20" :> " ") @@ ("25" :> "%")
RECURSIVE DecodeFrom(_, _)
DecodeFrom(s, i) ==
  IF i > Len(s) THEN [ok |-> TRUE, v |-> ""]
  ELSE IF Char(s, i) # "%"
    THEN LET r == DecodeFrom(s, i + 1)
         IN [ok |-> r.ok, v |-> Char(s, i) \o r.v]
  ELSE IF i + 2 <= Len(s) /\ SubSeq(s, i + 1, i + 2) \in DOMAIN PercentTable
    THEN LET r == DecodeFrom(s, i + 3)
         IN [ok |-> r.ok, v |-> PercentTable[SubSeq(s, i + 1, i + 2)] \o r.v]
  ELSE [ok |-> FALSE, v |-> ""]
DecodeURIComponent(s) == DecodeFrom(s, 1)

\* variants of the while condition with a slip: done is not looked at; the body
\* runs once before the condition is looked at (do ... while)
ImportLoopGuard_IgnoresDone(cur, att) == att < maxAttempts
ImportLoopGuard_DoWhile(cur, att) ==
  att = 0 \/ (~Truthy(cur.done) /\ att < maxAttempts)

\* variant with a slip: the attempt budget is not looked at
ImportLoopGuard_NoBudget(cur, att) == ~Truthy(cur.done)

\* line 49: the while condition
ImportLoopGuard(cur, att) == ~Truthy(cur.done) /\ att < maxAttempts

\* variant with a slip: the error is looked at only once done is set
ImportHasError_OnlyWhenDone(cur) == Truthy(cur.done) /\ Truthy(cur.error)

\* line 57: if (current.error)
ImportHasError(cur) == Truthy(cur.error)

\* variant with a slip: the operands of || are swapped
ImportErrorMessage_StringifyFirst(error) ==
  IF error.t = "string" THEN error
  ELSE Or(Or(JsonStringify(error), Prop(error, "message")), Str("Operation failed"))

\* lines 58-63
ImportErrorMessage(error) ==
  IF error.t = "string" THEN error
  ELSE Or(Or(Prop(error, "message"), JsonStringify(error)), Str("Operation failed"))

\* lines 77-83: the catch block
ImportCatch(error) ==
  NextResponseJson(
    [error |-> IF error.t = "Error" THEN error.message ELSE Str("Failed to import")], 500)

\* variant with a slip: the test after the loop is missing
ImportTimedOut_Never(cur) == FALSE

\* lines 68-76: after the loop
ImportTimedOut(cur) == ~Truthy(cur.done)
ImportSuccess(cur) ==
  NextResponseJson(
    [success |-> Bool(TRUE), importedFile |-> cur.response, operationName |-> cur.name], 200)

ImportReceive ==
  /\ pc = "idle"
  /\ \E req \in ImportRequests :
       /\ route' = "import"
       /\ request' = req
       /\ IF req.malformed
            THEN \* line 11: request.json() throws
                 /\ response' = ImportCatch(ErrorOf(Str("Unexpected end of JSON input")))
                 /\ pc' = "done"
                 /\ obs' = Responded(obs, "threw")
                 /\ UNCHANGED fileName
          ELSE IF ~Truthy(req.fileUri)
            THEN \* lines 14-19
                 /\ response' = NextResponseJson([error |-> Str("fileUri is required")], 400)
                 /\ pc' = "done"
                 /\ obs' = Responded(obs, "invalid")
                 /\ UNCHANGED fileName
          ELSE IF ~DecodeURIComponent(req.storeName).ok
            THEN \* line 29: decodeURIComponent throws
                 /\ response' = ImportCatch(ErrorOf(Str("URI malformed")))
                 /\ pc' = "done"
                 /\ obs' = Responded(obs, "threw")
                 /\ UNCHANGED fileName
          ELSE \* lines 21-40: importFile is called
                 /\ fileName' = ImportFileName(req.fileUri)
                 /\ pc' = "submitting"
                 /\ obs' = [obs EXCEPT
                      !.calls["fileSearchStores.importFile"] = @ + 1,
                      !.submitCalls = @ + 1, !.outstanding = @ + 1,
                      !.submitted =
                        Obj([fileSearchStoreName |-> Str(DecodeURIComponent(req.storeName).v),
                             fileName |-> ImportFileName(req.fileUri)])]
                 /\ UNCHANGED response
  /\ UNCHANGED <<current, currentFile, attempts>>
  /\ UNCHANGED <<work, other, ui>>

\* lines 37-46: importFile returns the Operation, or throws
ImportSubmitReturn ==
  /\ route = "import" /\ pc = "submitting"
  /\ \/ \E op \in Operations :
          /\ current' = op
          /\ attempts' = 0
          /\ pc' = "loop"
          /\ obs' = [obs EXCEPT !.outstanding = @ - 1,
                                !.initialKind = ImportKind(op),
                                !.initialTerminal = Truthy(op.done),
                                !.initialName = op.name]
          /\ UNCHANGED response
     \/ \E e \in Thrown :
          /\ response' = ImportCatch(e)
          /\ pc' = "done"
          /\ obs' = Responded([obs EXCEPT !.outstanding = @ - 1], "threw")
          /\ UNCHANGED <<current, attempts>>
  /\ UNCHANGED <<route, request, fileName, currentFile>>
  /\ UNCHANGED <<work, other, ui>>

\* line 49, and lines 68-76 when the loop is left
ImportLoop ==
  /\ route = "import" /\ pc = "loop"
  /\ IF ImportLoopGuard(current, attempts)
       THEN \* line 50: the delay starts
            /\ pc' = "sleeping"
            /\ obs' = [obs EXCEPT !.sleepStarts = @ + 1]
            /\ UNCHANGED response
     ELSE IF ImportTimedOut(current)
       THEN /\ response' = ImportCatch(ErrorOf(Str("Import timeout")))
            /\ pc' = "done"
            /\ obs' = Responded(obs, "timeout")
     ELSE /\ response' = ImportSuccess(current)
          /\ pc' = "done"
          /\ obs' = Responded(obs, "success")
  /\ UNCHANGED <<route, request, fileName, current, currentFile, attempts>>
  /\ UNCHANGED <<work, other, ui>>

\* variant with a slip: the promise of the delay is not awaited
ImportDelay_NotAwaited(o) == o

\* line 50: await new Promise((resolve) => setTimeout(resolve, 5000)) has completed
ImportDelay(o) == [o EXCEPT !.delays = @ + 1, !.slept = @ + importDelayMs]

\* line 52: the Operation the call is keyed by is the one held in current
ImportRefreshKey(cur) == cur.name

\* variant with a slip: the promise of ai.operations.get is not awaited, so that
\* current holds the promise and the loop goes on while the call is outstanding
ImportWake_NotAwaited ==
  /\ route = "import" /\ pc = "sleeping"
  /\ pc' = "loop"
  /\ current' = [name |-> Undefined, done |-> Undefined, error |-> Undefined,
                 response |-> Undefined]
  /\ attempts' = attempts + 1
  /\ obs' = [ImportDelay(obs) EXCEPT !.calls["operations.get"] = @ + 1,
                                     !.refreshCalls = @ + 1, !.outstanding = @ + 1,
                                     !.lastKey = ImportRefreshKey(current)]
  /\ UNCHANGED <<route, request, fileName, currentFile, response>>
  /\ UNCHANGED <<work, other, ui>>

\* lines 50-52: the delay ends and ai.operations.get({ operation: current }) is called
ImportWake ==
  /\ route = "import" /\ pc = "sleeping"
  /\ pc' = "refreshing"
  /\ obs' = [ImportDelay(obs) EXCEPT !.calls["operations.get"] = @ + 1,
                                     !.refreshCalls = @ + 1, !.outstanding = @ + 1,
                                     !.lastKey = ImportRefreshKey(current)]
  /\ UNCHANGED <<route, request, fileName, current, currentFile, attempts, response>>
  /\ UNCHANGED <<work, other, ui>>

\* lines 52-65: the call returns (or throws); the result is inspected
ImportRefreshReturn ==
  /\ route = "import" /\ pc = "refreshing"
  /\ \/ \E op \in Operations :
          /\ current' = op
          /\ attempts' = attempts + 1
          /\ LET seen == [obs EXCEPT !.outstanding = @ - 1,
                                     !.results = Append(@, ImportKind(op)),
                                     !.last = op,
                                     !.renamed = @ \/ op.name # obs.initialName]
             IN IF ImportHasError(op)
                  THEN /\ response' = ImportCatch(ErrorOf(ImportErrorMessage(op.error)))
                       /\ pc' = "done"
                       /\ obs' = Responded(seen, "failed")
                  ELSE /\ pc' = "loop"
                       /\ obs' = seen
                       /\ UNCHANGED response
     \/ \E e \in Thrown :
          /\ response' = ImportCatch(e)
          /\ pc' = "done"
          /\ obs' = Responded([obs EXCEPT !.outstanding = @ - 1,
                                          !.results = Append(@, "threw")], "threw")
          /\ UNCHANGED <<current, attempts>>
  /\ UNCHANGED <<route, request, fileName, currentFile>>
  /\ UNCHANGED <<work, other, ui>>

----------------------------------------------------------------------------
(* POST /api/upload *)

\* variant with a slip: one attempt too many
UploadLoopGuard_OffByOne(file, att) == file.state = "PROCESSING" /\ att <= maxAttempts

\* line 39: the while condition
UploadLoopGuard(file, att) == file.state = "PROCESSING" /\ att < maxAttempts

\* line 48
UploadFailed(file) == file.state = "FAILED"

\* variant with a slip: the { status: 500 } argument is missing
UploadFailure_NoStatus(file) ==
  NextResponseJson(
    [error |-> Or(Prop(file.error, "message"), Str("File processing failed"))], 200)

\* lines 49-54
UploadFailure(file) ==
  NextResponseJson(
    [error |-> Or(Prop(file.error, "message"), Str("File processing failed"))], 500)

\* variant with a slip: only a FAILED file is refused after the loop
UploadTimedOut_OnlyFailed(file) == file.state = "FAILED"

\* lines 58-63
UploadTimedOut(file) == file.state # "ACTIVE"
UploadTimeout == NextResponseJson([error |-> Str("File processing timeout")], 500)

\* lines 67-76
UploadSuccess(file) ==
  NextResponseJson(
    [success |-> Bool(TRUE),
     file |-> Obj([name |-> file.name, uri |-> file.uri, mimeType |-> file.mimeType,
                   sizeBytes |-> file.sizeBytes, displayName |-> file.displayName])], 200)

\* lines 77-82: the catch block
UploadCatch(error) ==
  NextResponseJson(
    [error |-> IF error.t = "Error" THEN error.message ELSE Str("Failed to upload file")],
    500)

UploadReceive ==
  /\ pc = "idle"
  /\ \E req \in UploadRequests :
       /\ route' = "upload"
       /\ request' = req
       /\ IF req.malformed
            THEN \* line 8: request.formData() throws
                 /\ response' = UploadCatch(ErrorOf(Str("Failed to parse body as FormData.")))
                 /\ pc' = "done"
                 /\ obs' = Responded(obs, "threw")
          ELSE IF ~req.file.present
            THEN \* lines 11-13
                 /\ response' = NextResponseJson([error |-> Str("No file provided")], 400)
                 /\ pc' = "done"
                 /\ obs' = Responded(obs, "invalid")
          ELSE \* lines 16-30: ai.files.upload is called
                 /\ pc' = "submitting"
                 /\ obs' = [obs EXCEPT
                      !.calls["files.upload"] = @ + 1,
                      !.submitCalls = @ + 1, !.outstanding = @ + 1,
                      !.submitted =
                        Obj([displayName |-> Str(req.file.name),
                             mimeType |-> Or(Str(req.file.type),
                                             Str("application/octet-stream"))])]
                 /\ UNCHANGED response
  /\ UNCHANGED <<fileName, current, currentFile, attempts>>
  /\ UNCHANGED <<work, other, ui>>

\* lines 24-37: ai.files.upload returns the file, or throws
UploadSubmitReturn ==
  /\ route = "upload" /\ pc = "submitting"
  /\ \/ \E f \in RemoteFiles :
          /\ currentFile' = f
          /\ attempts' = 0
          /\ pc' = "loop"
          /\ obs' = [obs EXCEPT !.outstanding = @ - 1,
                                !.initialKind = UploadKind(f),
                                !.initialTerminal = (f.state # "PROCESSING"),
                                !.initialName = f.name,
                                !.unnamed = (f.state = "PROCESSING" /\ ~Truthy(f.name))]
          /\ UNCHANGED response
     \/ \E e \in Thrown :
          /\ response' = UploadCatch(e)
          /\ pc' = "done"
          /\ obs' = Responded([obs EXCEPT !.outstanding = @ - 1], "threw")
          /\ UNCHANGED <<currentFile, attempts>>
  /\ UNCHANGED <<route, request, fileName, current>>
  /\ UNCHANGED <<work, other, ui>>

\* line 39, and lines 58-76 when the loop is left
UploadLoop ==
  /\ route = "upload" /\ pc = "loop"
  /\ IF UploadLoopGuard(currentFile, attempts)
       THEN \* line 40: the delay starts
            /\ pc' = "sleeping"
            /\ obs' = [obs EXCEPT !.sleepStarts = @ + 1]
            /\ UNCHANGED response
     ELSE IF UploadTimedOut(currentFile)
       THEN /\ response' = UploadTimeout
            /\ pc' = "done"
            /\ obs' = Responded(obs, "timeout")
     ELSE /\ response' = UploadSuccess(currentFile)
          /\ pc' = "done"
          /\ obs' = Responded(obs, "success")
  /\ UNCHANGED <<route, request, fileName, current, currentFile, attempts>>
  /\ UNCHANGED <<work, other, ui>>

\* line 40: await new Promise((resolve) => setTimeout(resolve, 1000)) has completed
UploadDelay(o) == [o EXCEPT !.delays = @ + 1, !.slept = @ + uploadDelayMs]

\* variant with a slip: the call is keyed by the display name
UploadRefreshKey_DisplayName(file) == file.displayName

\* line 41: const fileName = currentFile.name
UploadRefreshKey(file) == file.name

\* lines 40-45: the delay ends; without a file name the handler throws, with one
\* ai.files.get({ name: fileName }) is called
UploadWake ==
  /\ route = "upload" /\ pc = "sleeping"
  /\ fileName' = UploadRefreshKey(currentFile)
  /\ LET slept == UploadDelay(obs)
     IN IF ~Truthy(UploadRefreshKey(currentFile))
          THEN /\ response' = UploadCatch(ErrorOf(Str("File name not found")))
               /\ pc' = "done"
               /\ obs' = Responded(slept, "noname")
          ELSE /\ pc' = "refreshing"
               /\ obs' = [slept EXCEPT !.calls["files.get"] = @ + 1,
                                       !.refreshCalls = @ + 1, !.outstanding = @ + 1,
                                       !.lastKey = UploadRefreshKey(currentFile)]
               /\ UNCHANGED response
  /\ UNCHANGED <<route, request, current, currentFile, attempts>>
  /\ UNCHANGED <<work, other, ui>>

\* lines 45-55: the call returns (or throws); the result is inspected
UploadRefreshReturn ==
  /\ route = "upload" /\ pc = "refreshing"
  /\ \/ \E f \in RemoteFiles :
          /\ currentFile' = f
          /\ attempts' = attempts + 1
          /\ LET seen == [obs EXCEPT !.outstanding = @ - 1,
                                     !.results = Append(@, UploadKind(f)),
                                     !.last = f,
                                     !.renamed = @ \/ f.name # obs.initialName,
                                     !.unnamed = @ \/ (f.state = "PROCESSING" /\ ~Truthy(f.name))]
             IN IF UploadFailed(f)
                  THEN /\ response' = UploadFailure(f)
                       /\ pc' = "done"
                       /\ obs' = Responded(seen, "failed")
                  ELSE /\ pc' = "loop"
                       /\ obs' = seen
                       /\ UNCHANGED response
     \/ \E e \in Thrown :
          /\ response' = UploadCatch(e)
          /\ pc' = "done"
          /\ obs' = Responded([obs EXCEPT !.outstanding = @ - 1,
                                          !.results = Append(@, "threw")], "threw")
          /\ UNCHANGED <<currentFile, attempts>>
  /\ UNCHANGED <<route, request, fileName, current>>
  /\ UNCHANGED <<work, other, ui>>

----------------------------------------------------------------------------
(* The handlers that do not poll *)

\* their locals, and process.env as the handler finds it
WorkInit ==
  [env |-> {},               \* names of the environment variables that are set
   storeNames |-> Undefined, \* query: const storeNames (part_004 line 213)
   answer |-> Undefined,     \* query: const response (part_004 line 297)
   slideData |-> Undefined,  \* const slideData
   presentationId |-> Undefined,
   items |-> << >>,          \* GET: const files / const stores
   pages |-> 0]              \* GET: pages of the pager fetched so far

\* what a call to a remote service may throw: errors of the SDK with the message
\* of the service, and a value that is no Error
RemoteErrors ==
  {ErrorOf(Str("fetch failed")),
   ErrorOf(Str("{\"error\":{\"code\":400,\"status\":\"FAILED_PRECONDITION\"}}")),
   ErrorOf(Str("Cannot delete: the store contains documents")),
   ErrorOf(Str("Request contains an invalid argument.")),
   ErrorOf(Str("NOT_FOUND: no such resource")),
   Str("boom")}

\* catch (error): error instanceof Error ? error.message : fallback, status 500
CatchResponse(error, fallback) ==
  NextResponseJson(
    [error |-> IF error.t = "Error" THEN error.message ELSE Str(fallback)], 500)

\* a request of a handler that does not poll is accepted: nothing else changes
Accept(r, req) ==
  /\ pc = "idle"
  /\ route' = r
  /\ request' = req
  /\ UNCHANGED <<fileName, current, currentFile, attempts, other, ui>>

\* a later step of such a handler
Step(r, at) ==
  /\ route = r /\ pc = at
  /\ UNCHANGED <<route, request, fileName, current, currentFile, attempts, other, ui>>

\* the handler returns resp
Respond(resp, o, exit) ==
  /\ response' = resp
  /\ pc' = "done"
  /\ obs' = Responded(o, exit)

----------------------------------------------------------------------------
(* DELETE /api/files (files/route.ts lines 31-55) *)

\* searchParams.get("name"): null when the parameter is absent
FileDeleteRequests == [name : {Null, Str(""), Str("files/a")}]

\* line 36
FileDeleteInvalid(req) == ~Truthy(req.name)
\* lines 37-40
FileDeleteRefusal == NextResponseJson([error |-> Str("File name is required")], 400)
\* lines 45-48
FileDeleteOk ==
  NextResponseJson(
    [success |-> Bool(TRUE), message |-> Str("File deleted successfully")], 200)
\* lines 49-54
FileDeleteCatch(error) == CatchResponse(error, "Failed to delete file")

\* lines 33-43
FileDeleteReceive ==
  \E req \in FileDeleteRequests :
    /\ Accept("fileDelete", req)
    /\ IF FileDeleteInvalid(req)
         THEN Respond(FileDeleteRefusal, obs, "invalid")
         ELSE /\ pc' = "calling"
              /\ obs' = [Called(obs, "files.delete") EXCEPT
                           !.submitted = Obj([name |-> req.name])]
              /\ UNCHANGED response
    /\ UNCHANGED work

\* variant with a slip: a call that threw is made again
FileDeleteReturn_Retry ==
  /\ Step("fileDelete", "calling")
  /\ \/ Respond(FileDeleteOk, Returned(obs), "success")
     \/ \E e \in RemoteErrors :
          IF obs.calls["files.delete"] < 3
            THEN /\ obs' = Called(Returned(obs), "files.delete")
                 /\ UNCHANGED <<pc, response>>
            ELSE Respond(FileDeleteCatch(e), Returned(obs), "threw")
  /\ UNCHANGED work

\* lines 43-54: ai.files.delete returns, or throws
FileDeleteReturn ==
  /\ Step("fileDelete", "calling")
  /\ \/ Respond(FileDeleteOk, Returned(obs), "success")
     \/ \E e \in RemoteErrors : Respond(FileDeleteCatch(e), Returned(obs), "threw")
  /\ UNCHANGED work

----------------------------------------------------------------------------
(* POST /api/file-search-stores (part_002 lines 6-29) *)

StoreCreateRequests ==
  {[malformed |-> TRUE]} \cup
  [malformed : {FALSE}, displayName : {Undefined, Str(""), Str("KB")}]

\* the store ai.fileSearchStores.create returns
CreatedStores ==
  [name : {Str("fileSearchStores/kb-1")},
   displayName : {Undefined, Str("KB"), Str("My Knowledge Base")}]

\* lines 12-14: the argument of the call
StoreCreateArgument(req) ==
  Obj([config |-> Obj([displayName |-> Or(req.displayName, Str("My Knowledge Base"))])])
\* lines 16-22
StoreCreateOk(store) ==
  NextResponseJson(
    [success |-> Bool(TRUE),
     store |-> Obj([name |-> store.name, displayName |-> store.displayName])], 200)
\* lines 23-28
StoreCreateCatch(error) == CatchResponse(error, "Failed to create store")

\* lines 8-14
StoreCreateReceive ==
  \E req \in StoreCreateRequests :
    /\ Accept("storeCreate", req)
    /\ IF req.malformed
         THEN \* line 8: request.json() throws
              Respond(StoreCreateCatch(ErrorOf(Str("Unexpected end of JSON input"))),
                      obs, "threw")
         ELSE /\ pc' = "calling"
              /\ obs' = [Called(obs, "fileSearchStores.create") EXCEPT
                           !.submitted = StoreCreateArgument(req)]
              /\ UNCHANGED response
    /\ UNCHANGED work

\* lines 12-28: ai.fileSearchStores.create returns the store, or throws
StoreCreateReturn ==
  /\ Step("storeCreate", "calling")
  /\ \/ \E store \in CreatedStores : Respond(StoreCreateOk(store), Returned(obs), "success")
     \/ \E e \in RemoteErrors : Respond(StoreCreateCatch(e), Returned(obs), "threw")
  /\ UNCHANGED work

----------------------------------------------------------------------------
(* DELETE /api/file-search-stores (part_002 lines 58-90) *)

\* searchParams.get("name") and searchParams.get("force")
StoreDeleteRequests ==
  [name : {Null, Str(""), Str("fileSearchStores/kb")},
   force : {Null, Str("true"), Str("1")}]

\* line 62
StoreDeleteForce(req) == req.force = Str("true")
\* line 64
StoreDeleteInvalid(req) == ~Truthy(req.name)
\* lines 65-68
StoreDeleteRefusal == NextResponseJson([error |-> Str("Store name is required")], 400)
\* lines 73-78: the argument of the call
StoreDeleteArgument(req) ==
  Obj([name |-> req.name, config |-> Obj([force |-> Bool(StoreDeleteForce(req))])])
\* lines 80-83
StoreDeleteOk ==
  NextResponseJson(
    [success |-> Bool(TRUE), message |-> Str("File Search Store deleted successfully")],
    200)

\* variant with a slip: the message of the remote error is replaced
StoreDeleteCatch_FixedMessage(error) ==
  NextResponseJson([error |-> Str("Failed to delete store")], 500)

\* lines 84-89
StoreDeleteCatch(error) == CatchResponse(error, "Failed to delete store")

\* lines 60-78
StoreDeleteReceive ==
  \E req \in StoreDeleteRequests :
    /\ Accept("storeDelete", req)
    /\ IF StoreDeleteInvalid(req)
         THEN Respond(StoreDeleteRefusal, obs, "invalid")
         ELSE /\ pc' = "calling"
              /\ obs' = [Called(obs, "fileSearchStores.delete") EXCEPT
                           !.submitted = StoreDeleteArgument(req)]
              /\ UNCHANGED response
    /\ UNCHANGED work

\* lines 73-89: ai.fileSearchStores.delete returns, or throws
StoreDeleteReturn ==
  /\ Step("storeDelete", "calling")
  /\ \/ Respond(StoreDeleteOk, Returned(obs), "success")
     \/ \E e \in RemoteErrors : Respond(StoreDeleteCatch(e), Returned(obs), "threw")
  /\ UNCHANGED work

----------------------------------------------------------------------------
(* GET /api/files (files/route.ts lines 6-29) and GET /api/file-search-stores
   (part_002 lines 31-56) *)

\* pages the pager fetches for one request, at most
MaxPages == 2

ListedFile(n) ==
  Obj([name |-> Str("files/" \o n), uri |-> Str("https://g/v1beta/files/" \o n),
       displayName |-> Str(n \o ".pdf"), mimeType |-> Str("application/pdf"),
       sizeBytes |-> Str("10")])
ListedStore(n) ==
  Obj([name |-> Str("fileSearchStores/" \o n), displayName |-> Str(n)])

\* a page of the pager: its items, and whether another page follows
FilePages == [items : {<< >>, <<ListedFile("a")>>, <<ListedFile("b")>>}, more : BOOLEAN]
StorePages == [items : {<< >>, <<ListedStore("kb")>>, <<ListedStore("kb2")>>}, more : BOOLEAN]

ListCall(r) == IF r = "fileList" THEN "files.list" ELSE "fileSearchStores.list"
ListPages(r) == IF r = "fileList" THEN FilePages ELSE StorePages
\* files lines 19-22, stores lines 46-49
ListOk(r, items) ==
  IF r = "fileList"
    THEN NextResponseJson([success |-> Bool(TRUE), files |-> Arr(items)], 200)
    ELSE NextResponseJson([success |-> Bool(TRUE), stores |-> Arr(items)], 200)
\* files lines 23-28, stores lines 50-55
ListCatch(r, error) ==
  CatchResponse(error,
    IF r = "fileList" THEN "Failed to list files" ELSE "Failed to list stores")

\* files line 10, stores line 35: list() fetches the first page
ListReceive ==
  \E r \in {"fileList", "storeList"} :
    /\ Accept(r, Undefined)
    /\ pc' = "listing"
    /\ obs' = Called(obs, ListCall(r))
    /\ UNCHANGED <<response, work>>

\* files lines 10-28, stores lines 35-55: a page arrives, or the fetch throws;
\* for await goes through its items and fetches the next page if there is one
ListReturn ==
  \E r \in {"fileList", "storeList"} :
    /\ Step(r, "listing")
    /\ \/ \E page \in ListPages(r) :
            \* the pager reaches its last page within MaxPages pages
            /\ page.more => work.pages + 1 < MaxPages
            /\ LET items == work.items \o page.items
               IN IF page.more
                    THEN /\ work' = [work EXCEPT !.items = items, !.pages = @ + 1]
                         /\ obs' = Called(Returned(obs), ListCall(r))
                         /\ UNCHANGED <<pc, response>>
                    ELSE /\ work' = [work EXCEPT !.items = items, !.pages = @ + 1]
                         /\ Respond(ListOk(r, items), Returned(obs), "success")
       \/ \E e \in RemoteErrors :
            /\ Respond(ListCatch(r, e), Returned(obs), "threw")
            /\ UNCHANGED work

----------------------------------------------------------------------------
(* Slide content and presentation: generateSlideContentFromQuery and
   createGoogleSlides of part_004 (lines 18-196); part_003 (lines 16-191) holds
   the same functions for the slide generation route *)

\* process.env as a handler may find it: the variables that are set
EnvFull == {"GEMINI_API_KEY", "GEMINI_FILE_SEARCH_STORE", "GOOGLE_APPLICATION_CREDENTIALS"}
Environments ==
  {EnvFull, EnvFull \cup {"NODE_ENV=development"}} \cup {EnvFull \ {k} : k \in EnvFull}

Slide(title, points) ==
  Obj([title |-> Str(title), bulletPoints |-> Arr([i \in DOMAIN points |-> Str(points[i])])])

\* documents the model may return as the text of the slide content
SlideDocs ==
  {Obj([slides |-> Arr(<<Slide("A", <<"x">>)>>)]),
   Obj([title |-> Str("T"), slides |-> Arr(<< >>)]),
   Obj([title |-> Str("T"), slides |-> Str("none")]),
   Obj([title |-> Str("T"), slides |-> Arr(<<Slide("A", <<"x", "y">>)>>)]),
   Obj([title |-> Str("T"),
        slides |-> Arr(<<Slide("A", <<"x">>), Slide("B", << >>), Slide("C", <<"z">>)>>)]),
   Obj([title |-> Str("T"), slides |-> Arr(<<Obj([title |-> Str("A")])>>)])}

\* JSON text of these documents
KeyOrder == <<"title", "slides", "bulletPoints">>
RECURSIVE Json(_)
RECURSIVE JsonItems(_, _)
RECURSIVE JsonProps(_, _, _)
JsonItems(items, i) ==
  IF i > Len(items) THEN ""
  ELSE (IF i > 1 THEN "," ELSE "") \o Json(items[i]) \o JsonItems(items, i + 1)
JsonProps(props, i, first) ==
  IF i > Len(KeyOrder) THEN ""
  ELSE IF KeyOrder[i] \in DOMAIN props
    THEN (IF first THEN "" ELSE ",") \o "\"" \o KeyOrder[i] \o "\":"
         \o Json(props[KeyOrder[i]]) \o JsonProps(props, i + 1, FALSE)
  ELSE JsonProps(props, i + 1, first)
Json(v) ==
  CASE v.t = "string" -> "\"" \o v.v \o "\""
    [] v.t = "array" -> "[" \o JsonItems(v.items, 1) \o "]"
    [] v.t = "object" -> "{" \o JsonProps(v.props, 1, TRUE) \o "}"
    [] OTHER -> "null"

\* result.text of genAI.models.generateContent
SlideTexts ==
  {Undefined, Str(""), Str("Here are your slides"), Str("null")}
    \cup {Str(Json(d)) : d \in SlideDocs}

\* JSON.parse on these texts: the value, or ok = FALSE when it throws
JsonParse(s) ==
  IF s = "null" THEN [ok |-> TRUE, v |-> Null]
  ELSE IF \E d \in SlideDocs : Json(d) = s
    THEN [ok |-> TRUE, v |-> CHOOSE d \in SlideDocs : Json(d) = s]
  ELSE [ok |-> FALSE, v |-> Undefined]

\* part_004 lines 59-85: what generateSlideContentFromQuery does with the text:
\* the slide data, or the error it throws inside its try block
SlideContentOf(text) ==
  IF ~Truthy(text) THEN [ok |-> FALSE, error |-> ErrorOf(Str("No response from Gemini"))]
  ELSE LET parsed == JsonParse(text.v)
       IN IF ~parsed.ok
            THEN [ok |-> FALSE,
                  error |-> ErrorOf(Str("Invalid JSON response from Gemini - check prompt structure"))]
          ELSE IF parsed.v = Null
            THEN [ok |-> FALSE,
                  error |-> ErrorOf(Str("Cannot read properties of null (reading 'title')"))]
          ELSE IF \/ ~Truthy(Prop(parsed.v, "title"))
                  \/ Prop(parsed.v, "slides").t # "array"
                  \/ Len(Prop(parsed.v, "slides").items) = 0
            THEN [ok |-> FALSE,
                  error |-> ErrorOf(Str("Incomplete slide structure - missing title or slides array"))]
          ELSE [ok |-> TRUE, v |-> parsed.v]

\* part_004 lines 86-98: the catch block wraps what was thrown
GeminiFailure(error) ==
  ErrorOf(Str("Gemini generation failed: " \o
              (IF error.t = "Error" THEN error.message.v ELSE "Unknown Gemini error")))

\* what the Slides API may throw: errors with a code, and a value that is no Error
SlidesErrors ==
  {[t |-> "Error", message |-> Str("The caller does not have permission"), code |-> Num(403)],
   [t |-> "Error", message |-> Str("Quota exceeded"), code |-> Num(429)],
   [t |-> "Error", message |-> Str("Invalid requests[1].insertText"), code |-> Num(400)],
   [t |-> "Error", message |-> Str("Internal error"), code |-> Num(500)],
   ErrorOf(Str("socket hang up")),
   Str("boom")}

\* part_004 lines 175-195: the catch block of createGoogleSlides
SlidesFailure(error) ==
  LET code == IF error.t = "Error" /\ "code" \in DOMAIN error THEN error.code ELSE Undefined
  IN CASE code = Num(403) -> ErrorOf(Str("Permission denied - check service account scopes"))
       [] code = Num(429) -> ErrorOf(Str("Rate limit exceeded - try again later"))
       [] code = Num(400) -> ErrorOf(Str("Invalid request - check slide structure"))
       [] OTHER ->
            ErrorOf(Str("Slides creation failed: " \o
                        (IF error.t = "Error" THEN error.message.v ELSE "Unknown error")))

Digits == <<"0", "1", "2", "3", "4", "5", "6", "7", "8", "9">>
\* the decimal text of a number below 10
DigitText(n) == Digits[n + 1]

RECURSIVE JoinBullets(_, _)
\* slide.bulletPoints.map((p) => bullet + " " + p).join("\n"); the bullet character
\* is written as its escape •
JoinBullets(points, i) ==
  IF i > Len(points) THEN ""
  ELSE (IF i > 1 THEN "\n" ELSE "") \o "\\u2022 " \o points[i].v
       \o JoinBullets(points, i + 1)

\* part_004 lines 137-166 throw when a slide has no bulletPoints array
SlidesWellFormed(data) ==
  \A i \in DOMAIN Prop(data, "slides").items :
    Prop(Prop(data, "slides").items[i], "bulletPoints").t = "array"

RECURSIVE ContentRequests(_, _)
\* part_004 lines 137-166: three requests for each slide
ContentRequests(slides, i) ==
  IF i > Len(slides) THEN << >>
  ELSE LET slideId == "slide_" \o DigitText(i - 1)
       IN <<Obj([createSlide |->
                   Obj([objectId |-> Str(slideId),
                        slideLayoutReference |-> Obj([predefinedLayout |-> Str("TITLE_AND_BODY")]),
                        insertionIndex |-> Num(i)])]),
            Obj([insertText |->
                   Obj([objectId |-> Str(slideId \o ".p1-t1"), insertionIndex |-> Num(0),
                        text |-> Prop(slides[i], "title")])]),
            Obj([insertText |->
                   Obj([objectId |-> Str(slideId \o ".p2"), insertionIndex |-> Num(0),
                        text |-> Str(JoinBullets(Prop(slides[i], "bulletPoints").items, 1))])])>>
          \o ContentRequests(slides, i + 1)

\* variant with a slip: the title slide is pushed after the content slides
SlideRequests_TitleLast(data) ==
  ContentRequests(Prop(data, "slides").items, 1)
    \o <<Obj([createSlide |->
               Obj([objectId |-> Str("title_slide"), insertionIndex |-> Num(0),
                    slideLayoutReference |-> Obj([predefinedLayout |-> Str("TITLE")])])])>>

\* part_004 lines 114-166: the requests of the batch update
SlideRequests(data) ==
  <<Obj([createSlide |->
           Obj([objectId |-> Str("title_slide"), insertionIndex |-> Num(0),
                slideLayoutReference |-> Obj([predefinedLayout |-> Str("TITLE")])])])>>
    \o ContentRequests(Prop(data, "slides").items, 1)

Min(a, b) == IF a < b THEN a ELSE b

\* part_004 lines 346-354: what the response says about the presentation
SlidesInfo(data, id) ==
  LET slides == Prop(data, "slides").items
  IN [presentationId |-> id,
      presentationUrl |-> Str("https://docs.google.com/presentation/d/" \o id.v \o "/edit"),
      slideCount |-> Num(Len(slides)),
      title |-> Prop(data, "title"),
      preview |-> Arr(SubSeq(slides, 1, Min(2, Len(slides))))]

----------------------------------------------------------------------------
(* POST /api/query (part_004 lines 198-366) *)

QueryRequests ==
  {[malformed |-> TRUE]} \cup
  [malformed : {FALSE},
   query : {Undefined, Str(""), Str("what?")},
   fileSearchStoreNames :
     {Undefined, Str(""), Arr(<< >>), Arr(<<Str("fileSearchStores/kb")>>),
      Str("fileSearchStores/kb")},
   createSlides : {Undefined, Bool(TRUE)}]

\* x.length of a string or an array
Length(x) ==
  CASE x.t = "string" -> Num(Len(x.v))
    [] x.t = "array" -> Num(Len(x.items))
    [] OTHER -> Undefined

\* variant with a slip: an empty list of stores is let through
QueryRefusal_EmptyStoresPass(req) ==
  IF ~Truthy(req.query)
    THEN NextResponseJson([error |-> Str("Query is required")], 400)
  ELSE IF ~Truthy(req.fileSearchStoreNames)
    THEN NextResponseJson([error |-> Str("At least one fileSearchStoreName is required")], 400)
  ELSE NoResponse

\* lines 202-211: the refusal of a request, NoResponse when it is let through
QueryRefusal(req) ==
  IF ~Truthy(req.query)
    THEN NextResponseJson([error |-> Str("Query is required")], 400)
  ELSE IF ~Truthy(req.fileSearchStoreNames) \/ Length(req.fileSearchStoreNames) = Num(0)
    THEN NextResponseJson([error |-> Str("At least one fileSearchStoreName is required")], 400)
  ELSE NoResponse

\* lines 213-215
QueryStoreNames(req) ==
  IF req.fileSearchStoreNames.t = "array" THEN req.fileSearchStoreNames
  ELSE Arr(<<req.fileSearchStoreNames>>)

\* lines 246-258: the argument of the call, without the fixed instructions that
\* are appended to the query
QueryArgument(req) ==
  Obj([model |-> Str("gemini-2.5-flash"), contents |-> req.query,
       fileSearchStoreNames |-> QueryStoreNames(req)])

\* what ai.models.generateContent may return: the text and the grounding chunks
\* of the first candidate
GroundingChunks ==
  {Undefined,
   Arr(<<Obj([retrievedContext |-> Obj([uri |-> Str("doc.pdf")]),
              confidenceScore |-> Num(1)]),
         Obj([web |-> Obj([uri |-> Str("https://example.com")])]),
         Obj([retrievedContext |-> Obj([title |-> Str("doc")])])>>)}
AnswerResults == [text : {Undefined, Str(""), Str("# Answer")}, chunks : GroundingChunks]

\* lines 274-284
Citation(chunk) ==
  Obj([segment |-> Or(Or(Prop(Prop(chunk, "web"), "uri"),
                         Prop(Prop(chunk, "retrievedContext"), "uri")), Str("")),
       confidenceScore |-> Prop(chunk, "confidenceScore")])
Citations(chunks) ==
  IF chunks.t = "array"
    THEN Arr([i \in DOMAIN chunks.items |-> Citation(chunks.items[i])])
    ELSE Arr(<< >>)

\* lines 297-301
QueryAnswer(result) ==
  [success |-> Bool(TRUE), answer |-> result.text, citations |-> Citations(result.chunks)]

\* lines 360-365
QueryCatch(error) == CatchResponse(error, "Failed to process query")

\* lines 306-322: the refusal for a missing environment variable, NoResponse if none
QueryEnvRefusal(env) ==
  IF "GEMINI_API_KEY" \notin env
    THEN NextResponseJson([error |-> Str("GEMINI_API_KEY environment variable missing")], 500)
  ELSE IF "GOOGLE_APPLICATION_CREDENTIALS" \notin env
    THEN NextResponseJson(
           [error |-> Str("GOOGLE_APPLICATION_CREDENTIALS environment variable missing")], 500)
  ELSE NoResponse

\* lines 200-258
QueryReceive ==
  \E req \in QueryRequests :
    /\ Accept("query", req)
    /\ IF req.malformed
         THEN \* line 200: request.json() throws
              /\ Respond(QueryCatch(ErrorOf(Str("Unexpected end of JSON input"))), obs, "threw")
              /\ UNCHANGED work
       ELSE IF QueryRefusal(req) # NoResponse
         THEN /\ Respond(QueryRefusal(req), obs, "invalid")
              /\ UNCHANGED work
       ELSE /\ pc' = "answering"
            /\ work' = [work EXCEPT !.storeNames = QueryStoreNames(req)]
            /\ obs' = [Called(obs, "generateContent.answer") EXCEPT
                         !.submitted = QueryArgument(req)]
            /\ UNCHANGED response

\* lines 246-341: the answer arrives, or the call throws; with createSlides the
\* slide content is asked for
QueryAnswerReturn ==
  /\ Step("query", "answering")
  /\ \/ \E e \in RemoteErrors :
          /\ Respond(QueryCatch(e), Returned(obs), "threw")
          /\ UNCHANGED work
     \/ \E result \in AnswerResults :
          IF ~Truthy(result.text)
            THEN \* lines 260-265
                 /\ Respond(NextResponseJson([error |-> Str("No response from Gemini")], 500),
                            Returned(obs), "rejected")
                 /\ UNCHANGED work
          ELSE IF ~Truthy(request.createSlides)
            THEN \* lines 357-359
                 /\ Respond(NextResponseJson(QueryAnswer(result), 200), Returned(obs), "success")
                 /\ work' = [work EXCEPT !.answer = QueryAnswer(result)]
          ELSE \E env \in Environments :
                 IF QueryEnvRefusal(env) # NoResponse
                   THEN /\ Respond(QueryEnvRefusal(env), Returned(obs), "rejected")
                        /\ work' = [work EXCEPT !.answer = QueryAnswer(result), !.env = env]
                   ELSE /\ pc' = "generating"
                        /\ work' = [work EXCEPT !.answer = QueryAnswer(result), !.env = env]
                        /\ obs' = Called(Returned(obs), "generateContent.slides")
                        /\ UNCHANGED response

----------------------------------------------------------------------------
(* POST of the slide generation route (part_003 lines 193-279) *)

SlidesRequests ==
  {[malformed |-> TRUE]} \cup
  [malformed : {FALSE}, topic : {Undefined, Null, Str(""), Str("  "), Str("AI"), Str(" AI ")}]

RECURSIVE TrimLeft(_)
RECURSIVE TrimRight(_)
TrimLeft(s) == IF s # "" /\ Head(s) = " " THEN TrimLeft(Tail(s)) ELSE s
TrimRight(s) ==
  IF s # "" /\ SubSeq(s, Len(s), Len(s)) = " " THEN TrimRight(SubSeq(s, 1, Len(s) - 1)) ELSE s
\* String.prototype.trim, for strings whose white space is the space character
Trim(s) == TrimRight(TrimLeft(s))

\* line 198: !topic?.trim()
SlidesInvalid(req) ==
  IF req.topic.t \in {"undefined", "null"} THEN TRUE ELSE ~Truthy(Str(Trim(req.topic.v)))

\* lines 203-226
SlidesEnvRefusal(env) ==
  IF "GEMINI_API_KEY" \notin env
    THEN NextResponseJson([error |-> Str("GEMINI_API_KEY environment variable missing")], 500)
  ELSE IF "GEMINI_FILE_SEARCH_STORE" \notin env
    THEN NextResponseJson(
           [error |-> Str("GEMINI_FILE_SEARCH_STORE environment variable missing")], 500)
  ELSE IF "GOOGLE_APPLICATION_CREDENTIALS" \notin env
    THEN NextResponseJson(
           [error |-> Str("GOOGLE_APPLICATION_CREDENTIALS environment variable missing")], 500)
  ELSE NoResponse

\* lines 260-278
SlidesCatch(error, env) ==
  NextResponseJson(
    [success |-> Bool(FALSE),
     error |-> IF error.t = "Error" THEN error.message ELSE Str("Unknown error"),
     details |-> IF "NODE_ENV=development" \in env /\ error.t = "Error"
                   THEN Str("stack") ELSE Undefined,
     code |-> IF "NODE_ENV=development" \in env /\ error.t = "Error"
                   /\ "code" \in DOMAIN error
                THEN error.code ELSE Undefined], 500)

\* lines 195-241
SlidesReceive ==
  \E req \in SlidesRequests, env \in Environments :
    /\ Accept("slides", req)
    /\ work' = [work EXCEPT !.env = env]
    /\ IF req.malformed
         THEN \* line 195: request.json() throws
              Respond(SlidesCatch(ErrorOf(Str("Unexpected end of JSON input")), env),
                      obs, "threw")
       ELSE IF SlidesInvalid(req)
         THEN Respond(NextResponseJson([error |-> Str("Topic is required")], 400),
                      obs, "invalid")
       ELSE IF SlidesEnvRefusal(env) # NoResponse
         THEN Respond(SlidesEnvRefusal(env), obs, "rejected")
       ELSE /\ pc' = "generating"
            /\ obs' = Called(obs, "generateContent.slides")
            /\ UNCHANGED response

----------------------------------------------------------------------------
(* The slide pipeline of both routes *)

PipelineCatch(error) ==
  IF route = "query" THEN QueryCatch(error) ELSE SlidesCatch(error, work.env)

\* variant with a slip: the query route leaves the slides out of its answer
PipelineSuccess_NoSlides(data, id) ==
  IF route = "query"
    THEN NextResponseJson(work.answer, 200)
    ELSE NextResponseJson([success |-> Bool(TRUE)] @@ SlidesInfo(data, id), 200)

\* part_004 lines 357-359 with lines 348-354; part_003 lines 247-259
PipelineSuccess(data, id) ==
  IF route = "query"
    THEN NextResponseJson(work.answer @@ [slides |-> Obj(SlidesInfo(data, id))], 200)
    ELSE NextResponseJson([success |-> Bool(TRUE)] @@ SlidesInfo(data, id), 200)

\* part_004 lines 42-111: the slide content arrives, or the call throws; with
\* content that passes the checks the presentation is created
SlideContentReturn ==
  \E r \in {"query", "slides"} :
    /\ Step(r, "generating")
    /\ \/ \E e \in RemoteErrors :
            /\ Respond(PipelineCatch(GeminiFailure(e)), Returned(obs), "threw")
            /\ UNCHANGED work
       \/ \E text \in SlideTexts :
            LET content == SlideContentOf(text)
            IN IF ~content.ok
                 THEN /\ Respond(PipelineCatch(GeminiFailure(content.error)),
                                 Returned(obs), "rejected")
                      /\ UNCHANGED work
                 ELSE /\ pc' = "presenting"
                      /\ work' = [work EXCEPT !.slideData = content.v]
                      /\ obs' = [Called(Returned(obs), "presentations.create") EXCEPT
                                   !.submitted = Obj([title |-> Prop(content.v, "title")])]
                      /\ UNCHANGED response

\* part_004 lines 109-172: the presentation is created, or the call throws; the
\* requests are built and the batch update is sent
PresentationCreateReturn ==
  \E r \in {"query", "slides"} :
    /\ Step(r, "presenting")
    /\ \/ \E e \in SlidesErrors :
            /\ Respond(PipelineCatch(SlidesFailure(e)), Returned(obs), "threw")
            /\ UNCHANGED work
       \/ \E id \in {Str("p1")} :
            IF ~SlidesWellFormed(work.slideData)
              THEN /\ Respond(
                        PipelineCatch(SlidesFailure(
                          ErrorOf(Str("Cannot read properties of undefined (reading 'map')")))),
                        Returned(obs), "rejected")
                   /\ work' = [work EXCEPT !.presentationId = id]
              ELSE /\ pc' = "batching"
                   /\ work' = [work EXCEPT !.presentationId = id]
                   /\ obs' = [Called(Returned(obs), "presentations.batchUpdate") EXCEPT
                                !.submitted = Arr(SlideRequests(work.slideData))]
                   /\ UNCHANGED response

\* part_004 lines 169-195 and 345-359: the batch update returns, or throws
BatchUpdateReturn ==
  \E r \in {"query", "slides"} :
    /\ Step(r, "batching")
    /\ \/ \E e \in SlidesErrors :
            Respond(PipelineCatch(SlidesFailure(e)), Returned(obs), "threw")
       \/ Respond(PipelineSuccess(work.slideData, work.presentationId),
                  Returned(obs), "success")
    /\ UNCHANGED work

----------------------------------------------------------------------------
(* The page: Home, FileSearchStoreSelector, FileList and QueryInterface
   (FileUpload.tsx, FileList.tsx).  One handler of the page is followed at a
   time; the route handlers answer its fetches as defined above. *)

\* the most often the user is let agree to the force dialog within one workflow
MaxForceConfirms == 2
\* the most queries the user is let send
MaxQueries == 2

\* data.k of a parsed response body
DataProp(data, k) == IF k \in DOMAIN data THEN data[k] ELSE Undefined
\* response.ok
IsOk(resp) == resp.status >= 200 /\ resp.status <= 299

\* encodeURIComponent, for the characters store names and search strings hold
EscapeOf(c) ==
  CASE c = "/" -> "%2F" [] c = "&" -> "%26" [] c = "=" -> "%3D"
    [] c = "%" -> "%25" [] c = " " -> "%20" [] OTHER -> c
RECURSIVE EncodeURIComponent(_)
EncodeURIComponent(s) ==
  IF s = "" THEN "" ELSE EscapeOf(Char(s, 1)) \o EncodeURIComponent(SubSeq(s, 2, Len(s)))

\* URLSearchParams: percent-decoding of a name or a value
UnescapeOf(h) ==
  CASE h = "2F" -> "/" [] h = "26" -> "&" [] h = "3D" -> "="
    [] h = "25" -> "%" [] h = "20" -> " " [] OTHER -> "%" \o h
RECURSIVE PercentDecode(_)
PercentDecode(s) ==
  IF s = "" THEN ""
  ELSE IF Char(s, 1) = "%" /\ Len(s) >= 3
    THEN UnescapeOf(SubSeq(s, 2, 3)) \o PercentDecode(SubSeq(s, 4, Len(s)))
  ELSE Char(s, 1) \o PercentDecode(SubSeq(s, 2, Len(s)))

\* the index of the first c in s, 0 if there is none
IndexOf(s, c) ==
  IF \E i \in 1..Len(s) : Char(s, i) = c
    THEN CHOOSE i \in 1..Len(s) : Char(s, i) = c /\ \A j \in 1..(i - 1) : Char(s, j) # c
    ELSE 0

\* searchParams.get(key) of the search string s ("a=b&c=d"): null if no pair is named key
RECURSIVE SearchParamsGet(_, _)
SearchParamsGet(s, key) ==
  IF s = "" THEN Null
  ELSE LET amp == IndexOf(s, "&")
           pair == IF amp = 0 THEN s ELSE SubSeq(s, 1, amp - 1)
           rest == IF amp = 0 THEN "" ELSE SubSeq(s, amp + 1, Len(s))
           eq == IndexOf(pair, "=")
           k == IF eq = 0 THEN pair ELSE SubSeq(pair, 1, eq - 1)
           v == IF eq = 0 THEN "" ELSE SubSeq(pair, eq + 1, Len(pair))
       IN IF PercentDecode(k) = key THEN Str(PercentDecode(v))
          ELSE SearchParamsGet(rest, key)

\* FileList.tsx lines 345-347: the search string of the DELETE request
DeleteSearch(storeName, force) ==
  "name=" \o EncodeURIComponent(storeName) \o (IF force THEN "&force=true" ELSE "")

\* part_002 lines 60-62: what the handler reads from the search string
StoreDeleteParse(search) ==
  [name |-> SearchParamsGet(search, "name"), force |-> SearchParamsGet(search, "force")]

\* what the remote service does with a call: it returns, or throws one of RemoteErrors
RemoteOutcomes == {Str("ok")} \cup RemoteErrors

\* part_002 lines 58-90: the response of DELETE /api/file-search-stores to req
\* when the remote call, if one is made, has the outcome remote
StoreDeleteResponse(req, remote) ==
  IF StoreDeleteInvalid(req) THEN StoreDeleteRefusal
  ELSE IF remote = Str("ok") THEN StoreDeleteOk
  ELSE StoreDeleteCatch(remote)

\* part_004 lines 198-365 without slides: the response of POST /api/query
QueryResponses(req) ==
  IF QueryRefusal(req) # NoResponse THEN {QueryRefusal(req)}
  ELSE {NextResponseJson(QueryAnswer(result), 200) : result \in AnswerResults}
       \cup {QueryCatch(e) : e \in RemoteErrors}

\* the stores that may exist remotely, by the n of ListedStore(n)
AllStores == <<"kb", "kb2", "kb-1">>
RECURSIVE RemoteStoreList(_, _)
\* what ai.fileSearchStores.list yields for the stores that exist
RemoteStoreList(remote, i) ==
  IF i > Len(AllStores) THEN << >>
  ELSE (IF AllStores[i] \in remote THEN <<ListedStore(AllStores[i])>> ELSE << >>)
       \o RemoteStoreList(remote, i + 1)
\* part_002 lines 31-56: the responses of GET /api/file-search-stores
StoreListResponses(u) ==
  {ListOk("storeList", RemoteStoreList(u.remoteStores, 1)),
   ListCatch("storeList", ErrorOf(Str("fetch failed")))}

\* the files FileList shows, by uri, and what the user may type as a query
ShownFiles == {Prop(ListedFile(n), "uri").v : n \in {"a", "b"}}
TypedQueries == {"", "  ", "what?"}

\* the workflow of the delete button so far: dialogs answered, requests sent,
\* responses received
NoWorkflow == [dialogs |-> << >>, sent |-> << >>, replies |-> << >>]

\* FileList is not followed request by request: its list is taken as loaded
NoFileList == [loading |-> FALSE]

\* FileUpload is not followed
NoFileUpload == [uploading |-> FALSE]

UIInit ==
  [upc |-> "mounting",
   \* Home (FileUpload.tsx lines 497-501)
   selectedFileSearchStoreName |-> Null, modalOpen |-> FALSE, stores |-> << >>,
   storesLoading |-> TRUE,
   \* FileSearchStoreSelector (FileList.tsx lines 203-206)
   error |-> Null, deletingStore |-> Null,
   \* the invocation of handleDeleteStore: its arguments and the selectedStore
   \* of the render that made it
   storeName |-> Null, force |-> FALSE, selectedStore |-> Null,
   \* FileList (FileList.tsx line 22)
   selectedFiles |-> {},
   \* QueryInterface (FileUpload.tsx lines 168-172)
   query |-> "", qerror |-> Null, qresponse |-> Null, createSlides |-> FALSE,
   \* the invocation of handleCreateStore: the name of the store created
   created |-> Null,
   remoteStores |-> {"kb", "kb2"},   \* the stores that exist remotely
   workflow |-> NoWorkflow,
   fu |-> NoFileUpload,   \* FileUpload when it is followed
   fl |-> NoFileList,   \* FileList when its requests are followed
   \* each query sent: the files checked, the text typed and the store selected
   \* then, and the body of the request
   queries |-> << >>]

ServerUnchanged ==
  UNCHANGED <<route, request, pc, fileName, current, currentFile, attempts, response,
              obs, work, other>>

\* FileUpload.tsx lines 508-531: Home.loadStores once its fetch has answered
\* resp; selected is selectedFileSearchStoreName of the render that made the
\* function
LoadStores(u, resp, selected) ==
  LET data == resp.body
      loadedStores == IF Truthy(DataProp(data, "stores"))
                        THEN DataProp(data, "stores").items ELSE << >>
  IN IF ~IsOk(resp)
       THEN [u EXCEPT !.storesLoading = FALSE]   \* console.error only
       ELSE [u EXCEPT !.stores = loadedStores,
                      !.storesLoading = FALSE,
                      !.selectedFileSearchStoreName =
                         IF Len(loadedStores) > 0 /\ ~Truthy(selected)
                           THEN Prop(loadedStores[1], "name") ELSE @]

\* FileUpload.tsx lines 504-506: the effect of the first render
HomeMount ==
  /\ ui.upc = "mounting"
  /\ \E resp \in StoreListResponses(ui) :
       ui' = [LoadStores(ui, resp, ui.selectedFileSearchStoreName) EXCEPT !.upc = "idle"]
  /\ ServerUnchanged

\* FileUpload.tsx lines 543, 574, 597: the modal is opened or closed; closing it
\* unmounts FileSearchStoreSelector and FileList, whose state is lost
SetModalOpen ==
  /\ ui.upc = "idle"
  /\ ui' = IF ui.modalOpen
             THEN [ui EXCEPT !.modalOpen = FALSE, !.selectedFiles = {}, !.error = Null,
                             !.deletingStore = Null, !.workflow = NoWorkflow]
             ELSE [ui EXCEPT !.modalOpen = TRUE]
  /\ ServerUnchanged

StoreNamesShown(u) == {Prop(u.stores[i], "name") : i \in DOMAIN u.stores}

\* FileList.tsx lines 214-219, 318-320 with Home's props
HandleStoreChange(u, store) == [u EXCEPT !.selectedFileSearchStoreName = store]
HandleStoreSelectChange ==
  /\ ui.upc = "idle" /\ ui.modalOpen /\ ~ui.storesLoading
  /\ \E name \in StoreNamesShown(ui) :
       /\ name # ui.selectedFileSearchStoreName
       /\ ui' = HandleStoreChange(ui, name)
  /\ ServerUnchanged

\* the list is rendered (lines 96-118): not while loading, with an error, or empty
ListRendered(u) ==
  u.fl # NoFileList /\ ~u.fl.loading /\ u.fl.error = Null /\ u.fl.files # << >>

\* the uris of the rows the user can click
FilesShown(u) ==
  IF u.fl = NoFileList THEN ShownFiles
  ELSE IF ListRendered(u) THEN {Prop(u.fl.files[i], "uri").v : i \in DOMAIN u.fl.files}
  ELSE {}

\* FileUpload.tsx line 657: onFileSelect={() => {}}
OnFileSelect(u, uris) == u

\* FileList.tsx lines 48-57
HandleFileToggle ==
  /\ ui.upc = "idle" /\ ui.modalOpen
  /\ \E uri \in FilesShown(ui) :
       LET newSelected == IF uri \in ui.selectedFiles
                            THEN ui.selectedFiles \ {uri}
                            ELSE ui.selectedFiles \cup {uri}
       IN ui' = OnFileSelect([ui EXCEPT !.selectedFiles = newSelected], newSelected)
  /\ ServerUnchanged

\* the input of QueryInterface: setQuery
SetQuery ==
  /\ ui.upc = "idle"
  /\ \E q \in TypedQueries : q # ui.query /\ ui' = [ui EXCEPT !.query = q]
  /\ ServerUnchanged

\* FileUpload.tsx lines 198-202: the body, as the handler parses it
QueryBody(u) ==
  [malformed |-> FALSE, query |-> Str(u.query),
   fileSearchStoreNames |-> Arr(<<u.selectedFileSearchStoreName>>),
   createSlides |-> Bool(u.createSlides)]

\* FileUpload.tsx lines 176-203: the form is submitted
HandleSubmit ==
  /\ ui.upc = "idle"
  /\ IF Trim(ui.query) = ""
       THEN ui' = [ui EXCEPT !.qerror = Str("Please enter a query")]
     ELSE IF ~Truthy(ui.selectedFileSearchStoreName)
       THEN ui' = [ui EXCEPT !.qerror = Str("Please select a File Search Store")]
     ELSE /\ Len(ui.queries) < MaxQueries
          /\ ui' = [ui EXCEPT !.upc = "querying", !.qerror = Null, !.qresponse = Null,
                              !.queries = Append(@, [checked |-> ui.selectedFiles,
                                                     typed |-> ui.query,
                                                     store |-> ui.selectedFileSearchStoreName,
                                                     body |-> QueryBody(ui)])]
  /\ ServerUnchanged

\* FileUpload.tsx lines 193-217: the fetch rejects, or the response arrives
HandleSubmitReturn ==
  /\ ui.upc = "querying"
  /\ \/ ui' = [ui EXCEPT !.upc = "idle", !.qerror = Str("Failed to fetch")]
     \/ \E resp \in QueryResponses(ui.queries[Len(ui.queries)].body) :
          ui' = IF ~IsOk(resp)
                  THEN [ui EXCEPT !.upc = "idle",
                          !.qerror = Or(DataProp(resp.body, "error"), Str("Query failed"))]
                  ELSE [ui EXCEPT !.upc = "idle", !.qresponse = resp.body]
  /\ ServerUnchanged

\* FileList.tsx lines 358-361: the error text names a store that is not empty
NonEmptyStoreText(error) ==
  IF error.t = "string"
    THEN Includes(error.v, "FAILED_PRECONDITION") \/ Includes(error.v, "contains")
    ELSE FALSE   \* data.error?.includes: undefined

\* FileList.tsx lines 322-325: the delete button of a store is clicked
\* (lines 439-440: it is disabled while that store is being deleted)
HandleDeleteStore ==
  /\ ui.upc = "idle" /\ ui.modalOpen /\ ~ui.storesLoading
  /\ \E name \in StoreNamesShown(ui) :
       /\ ui.deletingStore # name
       /\ ui' = [ui EXCEPT !.upc = "confirm", !.storeName = name, !.force = FALSE,
                           !.selectedStore = ui.selectedFileSearchStoreName,
                           !.workflow = NoWorkflow]
  /\ ServerUnchanged

\* FileList.tsx lines 326-352: the dialog "Are you sure you want to delete this
\* store?" is answered.  Declined, the invocation returns; else the request is
\* sent.  In the invocation made with force = true the finally clause of the
\* invocation that made it (line 389) runs as soon as this one returns or waits.
ConfirmAnswer ==
  /\ ui.upc = "confirm"
  /\ \E yes \in BOOLEAN :
       LET dialogs == Append(ui.workflow.dialogs, [d |-> "delete", yes |-> yes])
           search == DeleteSearch(ui.storeName.v, ui.force)
       IN ui' = IF ~yes
                  THEN [ui EXCEPT !.upc = "idle", !.workflow.dialogs = dialogs,
                                  !.deletingStore = IF ui.force THEN Null ELSE @]
                  ELSE [ui EXCEPT !.upc = "deleting", !.error = Null,
                                  !.deletingStore = IF ui.force THEN Null ELSE ui.storeName,
                                  !.workflow.dialogs = dialogs,
                                  !.workflow.sent = Append(@, search)]
  /\ ServerUnchanged

\* FileList.tsx lines 384-385: catch (err) and finally
DeleteFailed(u, message) ==
  [u EXCEPT !.upc = "idle", !.error = message, !.deletingStore = Null]

\* FileList.tsx lines 344-390: the fetch rejects, or the handler's response arrives
DeleteFetchReturn ==
  /\ ui.upc = "deleting"
  /\ \/ ui' = [DeleteFailed(ui, Str("Failed to fetch")) EXCEPT
                 !.workflow.replies = Append(@, [remote |-> Str("none"), resp |-> NoResponse])]
     \/ \E remote \in RemoteOutcomes :
          LET search == ui.workflow.sent[Len(ui.workflow.sent)]
              resp == StoreDeleteResponse(StoreDeleteParse(search), remote)
              data == resp.body
              u == [ui EXCEPT !.workflow.replies = Append(@, [remote |-> remote, resp |-> resp])]
              gone == {n \in u.remoteStores : Prop(ListedStore(n), "name") = u.storeName}
          IN ui' = IF ~IsOk(resp)
                     THEN IF NonEmptyStoreText(DataProp(data, "error"))
                            THEN [u EXCEPT !.upc = "forceAsk"]
                            ELSE DeleteFailed(u, Or(DataProp(data, "error"),
                                                    Str("Failed to delete store")))
                     ELSE [(IF u.selectedStore = u.storeName
                              THEN HandleStoreChange(u, Null) ELSE u)
                           EXCEPT !.upc = "reloading", !.storesLoading = TRUE,
                                  !.remoteStores = @ \ gone]
  /\ ServerUnchanged

\* FileList.tsx lines 362-369: the dialog "This store contains files. Do you want
\* to delete it anyway?" is answered
ForceDeleteAnswer ==
  /\ ui.upc = "forceAsk"
  /\ \E forceDelete \in BOOLEAN :
       LET dialogs == Append(ui.workflow.dialogs, [d |-> "force", yes |-> forceDelete])
           data == ui.workflow.replies[Len(ui.workflow.replies)].resp.body
       IN IF forceDelete
            THEN /\ Cardinality({i \in DOMAIN dialogs : dialogs[i] = [d |-> "force", yes |-> TRUE]})
                      <= MaxForceConfirms
                 /\ ui' = [ui EXCEPT !.upc = "confirm", !.force = TRUE,
                                     !.workflow.dialogs = dialogs]
            ELSE ui' = [DeleteFailed(ui, Or(DataProp(data, "error"),
                                            Str("Failed to delete store")))
                        EXCEPT !.workflow.dialogs = dialogs]
  /\ ServerUnchanged

\* FileList.tsx lines 265-283: Create is clicked with a name typed (line 471: the
\* button is disabled without one); the request is sent
HandleCreateStore ==
  /\ ui.upc = "idle" /\ ui.modalOpen /\ ~ui.storesLoading
  /\ "kb-1" \notin ui.remoteStores
  /\ ui' = [ui EXCEPT !.upc = "creating", !.error = Null,
                      !.selectedStore = ui.selectedFileSearchStoreName,
                      !.workflow = NoWorkflow]
  /\ ServerUnchanged

\* part_002 lines 6-29: the response of POST /api/file-search-stores when the
\* remote call returns store, or throws
StoreCreateResponses ==
  {StoreCreateOk(store) : store \in {c \in CreatedStores : c.displayName = Str("KB")}}
  \cup {StoreCreateCatch(e) : e \in RemoteErrors}

\* FileList.tsx lines 285-297, 312-315: the response arrives; the stores are
\* reloaded
CreateFetchReturn ==
  /\ ui.upc = "creating"
  /\ \E resp \in StoreCreateResponses :
       ui' = IF ~IsOk(resp)
               THEN [ui EXCEPT !.upc = "idle",
                       !.error = Or(DataProp(resp.body, "error"), Str("Failed to create store"))]
               ELSE [ui EXCEPT !.upc = "createReloading", !.storesLoading = TRUE,
                       !.created = Prop(DataProp(resp.body, "store"), "name"),
                       !.remoteStores = @ \cup {"kb-1"}]
  /\ ServerUnchanged

\* FileList.tsx lines 294-315: onReload has answered; the store created is selected
CreateReloadReturn ==
  /\ ui.upc = "createReloading"
  /\ \E resp \in StoreListResponses(ui) :
       LET u == LoadStores(ui, resp, ui.selectedStore)
       IN ui' = [(IF Truthy(ui.created) THEN HandleStoreChange(u, ui.created) ELSE u)
                 EXCEPT !.upc = "idle", !.created = Null]
  /\ ServerUnchanged

\* FileList.tsx lines 377-390: onReload, that is Home.loadStores of the render
\* that made the handler, has answered; finally
ReloadReturn ==
  /\ ui.upc = "reloading"
  /\ \E resp \in StoreListResponses(ui) :
       ui' = [LoadStores(ui, resp, ui.selectedStore) EXCEPT
                !.upc = "idle", !.deletingStore = Null]
  /\ ServerUnchanged


----------------------------------------------------------------------------
(* FileList with its requests followed one by one (FileList.tsx lines 19-87).
   A request is answered by its handler at some moment and the response is
   delivered at a later one, so that responses may arrive in another order than
   the requests were issued. *)

\* the most list requests FileList is let issue
MaxLoads == 3

\* the files that may exist remotely, by the n of ListedFile(n)
AllFiles == {"a", "b"}
NoDelete == [fileName |-> Null]

\* FileList has just been mounted: lines 20-23, and the effect of lines 25-27
\* has issued the first list request
FileListMounted ==
  [files |-> << >>, loading |-> TRUE, error |-> Null,
   remote |-> {"a"},          \* the files that exist remotely
   loads |-> {[id |-> 1, resp |-> NoResponse]},  \* loadFiles invocations in flight
   issued |-> 1,              \* list requests issued so far
   del |-> NoDelete,          \* the handleDelete invocation in flight
   shownFrom |-> 0,           \* the request whose files are in files
   arrived |-> {},            \* the requests whose successful response has arrived
   lastDelete |-> NoDelete]   \* the selection around the last successful delete

\* what ai.files.list yields for the files that exist, in the order of their names
RemoteList(remote) ==
  (IF "a" \in remote THEN <<ListedFile("a")>> ELSE << >>)
    \o (IF "b" \in remote THEN <<ListedFile("b")>> ELSE << >>)

\* lines 29-32: loadFiles starts
LoadFilesStart(f) ==
  [f EXCEPT !.loading = TRUE, !.error = Null, !.issued = @ + 1,
            !.loads = @ \cup {[id |-> f.issued + 1, resp |-> NoResponse]}]

\* files/route.ts GET answers a list request
LoadFilesAnswered ==
  /\ ui.fl # NoFileList
  /\ \E l \in ui.fl.loads :
       /\ l.resp = NoResponse
       /\ \E resp \in {ListOk("fileList", RemoteList(ui.fl.remote)),
                       ListCatch("fileList", ErrorOf(Str("fetch failed")))} :
            ui' = [ui EXCEPT !.fl.loads = (@ \ {l}) \cup {[l EXCEPT !.resp = resp]}]
  /\ ServerUnchanged

\* lines 33-45: the response of a list request arrives
LoadFilesReturn ==
  /\ ui.fl # NoFileList
  /\ \E l \in ui.fl.loads :
       /\ l.resp # NoResponse
       /\ LET data == l.resp.body
              f == [ui.fl EXCEPT !.loads = @ \ {l}, !.loading = FALSE]
          IN ui' = [ui EXCEPT !.fl =
                      IF ~IsOk(l.resp)
                        THEN [f EXCEPT !.error = Or(DataProp(data, "error"),
                                                    Str("Failed to load files"))]
                        ELSE [f EXCEPT !.files = IF Truthy(DataProp(data, "files"))
                                                   THEN DataProp(data, "files").items
                                                   ELSE << >>,
                                       !.shownFrom = l.id,
                                       !.arrived = @ \cup {l.id}]]
  /\ ServerUnchanged

\* FileUpload.tsx lines 533-535 and FileList.tsx lines 25-27: an upload has
\* succeeded, refreshTrigger changes and the effect calls loadFiles
HandleUploadSuccess ==
  /\ ui.fl # NoFileList
  /\ ui.fl.issued < MaxLoads
  /\ \E n \in AllFiles \ ui.fl.remote :
       ui' = [ui EXCEPT !.fl = LoadFilesStart([ui.fl EXCEPT !.remote = @ \cup {n}])]
  /\ ServerUnchanged

\* lines 59-66: Delete is clicked on a row and confirmed; the request is sent.
\* The invocation keeps selectedFiles and files of the render it was made in.
HandleDelete ==
  /\ ListRendered(ui)
  /\ ui.fl.del = NoDelete
  /\ ui.fl.issued < MaxLoads
  /\ \E i \in DOMAIN ui.fl.files :
       ui' = [ui EXCEPT !.fl.del =
                [fileName |-> Prop(ui.fl.files[i], "name"),
                 search |-> "name=" \o EncodeURIComponent(Prop(ui.fl.files[i], "name").v),
                 selectedFiles |-> ui.selectedFiles,
                 files |-> ui.fl.files,
                 resp |-> NoResponse]]
  /\ ServerUnchanged

\* files/route.ts lines 31-55: the response of DELETE /api/files to req when the
\* remote call, if one is made, has the outcome remote
FileDeleteResponse(req, remote) ==
  IF FileDeleteInvalid(req) THEN FileDeleteRefusal
  ELSE IF remote = Str("ok") THEN FileDeleteOk
  ELSE FileDeleteCatch(remote)

\* the handler answers the delete request
FileDeleteAnswered ==
  /\ ui.fl # NoFileList
  /\ ui.fl.del # NoDelete /\ ui.fl.del.resp = NoResponse
  /\ \E remote \in {Str("ok"), ErrorOf(Str("NOT_FOUND: no such resource"))} :
       LET req == [name |-> SearchParamsGet(ui.fl.del.search, "name")]
           resp == FileDeleteResponse(req, remote)
           gone == {n \in AllFiles : Prop(ListedFile(n), "name") = req.name}
       IN ui' = [ui EXCEPT !.fl.del.resp = resp,
                           !.fl.remote = IF IsOk(resp) THEN @ \ gone ELSE @]
  /\ ServerUnchanged

\* lines 75-80: the uris of the files named name are taken out of the selection
SelectedAfterDelete(selected, files, name) ==
  selected \ {Prop(files[i], "uri").v :
                i \in {j \in DOMAIN files : Prop(files[j], "name") = name}}

\* lines 68-86: the response of the delete request arrives
HandleDeleteReturn ==
  /\ ui.fl # NoFileList
  /\ ui.fl.del # NoDelete /\ ui.fl.del.resp # NoResponse
  /\ LET d == ui.fl.del
         newSelected == SelectedAfterDelete(d.selectedFiles, d.files, d.fileName)
     IN ui' = IF ~IsOk(d.resp)
                THEN [ui EXCEPT !.fl.del = NoDelete]    \* alert
                ELSE OnFileSelect(
                       [ui EXCEPT !.fl = [LoadFilesStart(ui.fl) EXCEPT
                                            !.del = NoDelete,
                                            !.lastDelete =
                                              [fileName |-> d.fileName,
                                               before |-> ui.selectedFiles,
                                               after |-> newSelected]],
                                  !.selectedFiles = newSelected],
                       newSelected)
  /\ ServerUnchanged

----------------------------------------------------------------------------
(* FileUpload (FileUpload.tsx lines 10-77), mounted in the open modal *)

\* the most pipelines the user is let start
MaxUploads == 2

\* a FileUpload that has just been mounted: lines 14-16
FileUploadMounted ==
  [uploading |-> FALSE, error |-> Null, success |-> Null,
   stage |-> "idle",          \* the await the invocation of handleFileUpload is at
   store |-> Null,            \* fileSearchStoreName of the render that made it
   uploadData |-> << >>,
   inFlight |-> 0,            \* pipelines started and not ended
   log |-> << >>]             \* the requests of the latest pipeline and their answers

\* the page with the modal open: inst holds the mounted FileUpload, at index
\* cur, and the unmounted ones whose handler is still running or has run on
\* after the modal was closed
UploadsMounted ==
  [inst |-> <<FileUploadMounted>>, cur |-> 1,
   started |-> 0,             \* pipelines started
   refreshTrigger |-> 0]      \* Home, line 497

\* the File objects the upload of doc.pdf may end with
UploadedFiles ==
  {g \in RemoteFiles : g.name = Str("files/a") /\ g.sizeBytes = Str("10")
                         /\ g.error \in {Undefined, Obj([message |-> Str("quota exceeded")])}}

\* upload/route.ts: the responses POST /api/upload may give to a form with a file
UploadResponses ==
  {UploadSuccess(g) : g \in {h \in UploadedFiles : h.state = "ACTIVE" /\ h.error = Undefined}}
  \cup {UploadFailure(g) : g \in {h \in UploadedFiles : h.state = "FAILED"}}
  \cup {UploadTimeout, UploadCatch(ErrorOf(Str("fetch failed")))}

\* import/route.ts: the responses POST .../import may give to a body with fileUri
ImportResponses(fileUri) ==
  IF ~Truthy(fileUri) THEN {NextResponseJson([error |-> Str("fileUri is required")], 400)}
  ELSE {ImportSuccess(op) :
          op \in {o \in Operations : /\ o.name = Str("operations/a")
                                      /\ o.done = Bool(TRUE) /\ o.error = Undefined}}
       \cup {ImportCatch(ErrorOf(ImportErrorMessage(Str("quota exceeded")))),
             ImportCatch(ErrorOf(Str("Import timeout")))}

\* line 89: disabled={uploading || !fileSearchStoreName}
\* variant with a slip: uploading is left out
FileInputDisabled_StoreOnly(f, store) == ~Truthy(store)
FileInputDisabled(f, store) == f.uploading \/ ~Truthy(store)

\* variant with a slip: the answer of the import request is not looked at
ImportAnswerFailed_Ignored(resp) == FALSE
\* line 43 and line 63: if (!response.ok)
UploadAnswerFailed(resp) == ~IsOk(resp)
ImportAnswerFailed(resp) == ~IsOk(resp)

\* lines 73-76: catch (err), finally
PipelineFailed(f, message) ==
  [f EXCEPT !.stage = "idle", !.error = message, !.uploading = FALSE, !.inFlight = @ - 1]

Answered(f, req, status) == [f EXCEPT !.log = Append(@, [req |-> req, status |-> status])]

\* lines 18-39: a file is chosen; the upload request is sent
HandleFileUpload ==
  /\ ui.fu # NoFileUpload /\ ui.fu.cur # 0
  /\ ~FileInputDisabled(ui.fu.inst[ui.fu.cur], ui.selectedFileSearchStoreName)
  /\ ui.fu.started < MaxUploads
  /\ ui' = [ui EXCEPT !.fu.started = @ + 1,
                      !.fu.inst[ui.fu.cur] =
              [@ EXCEPT !.uploading = TRUE, !.error = Null, !.success = Null,
                        !.stage = "upload", !.store = ui.selectedFileSearchStoreName,
                        !.inFlight = @ + 1,
                        !.log = <<[req |-> "upload", status |-> 0]>>]]
  /\ ServerUnchanged

\* lines 41-59: what handleFileUpload does with the response of /api/upload
AfterUpload(f, resp) ==
  LET g == Answered(f, "upload", resp.status)
  IN IF UploadAnswerFailed(resp)
       THEN PipelineFailed(g, Or(DataProp(resp.body, "error"), Str("Upload failed")))
     ELSE IF DataProp(resp.body, "file") = Undefined
       THEN \* line 57: uploadData.file.uri throws
            PipelineFailed(g, Str("Cannot read properties of undefined (reading 'uri')"))
     ELSE [g EXCEPT !.stage = "import", !.uploadData = resp.body,
                    !.log = Append(@, [req |-> "import", status |-> 0])]

\* lines 36-59: the fetch rejects, or the response of /api/upload arrives and
\* the import request is sent
UploadFetchReturn ==
  /\ ui.fu # NoFileUpload
  /\ \E i \in DOMAIN ui.fu.inst :
       /\ ui.fu.inst[i].stage = "upload"
       /\ \/ ui' = [ui EXCEPT !.fu.inst[i] =
                      PipelineFailed(Answered(@, "upload", -1), Str("Failed to fetch"))]
          \/ \E resp \in UploadResponses :
               ui' = [ui EXCEPT !.fu.inst[i] = AfterUpload(@, resp)]
  /\ ServerUnchanged

\* lines 61-72: what handleFileUpload does with the response of the import
AfterImport(f, resp) ==
  LET g == Answered(f, "import", resp.status)
  IN IF ImportAnswerFailed(resp)
       THEN PipelineFailed(g, Or(DataProp(resp.body, "error"),
                                 Str("Failed to import file into store")))
       ELSE [g EXCEPT !.stage = "idle", !.uploading = FALSE, !.inFlight = @ - 1,
               !.success = Str("File \"doc.pdf\" uploaded and imported successfully!"),
               !.log = Append(@, [req |-> "onUploadSuccess", status |-> 0])]

\* lines 48-76 and 533-535: the fetch rejects, or the response of the import
\* request arrives; onUploadSuccess is Home.handleUploadSuccess
ImportFetchReturn ==
  /\ ui.fu # NoFileUpload
  /\ \E i \in DOMAIN ui.fu.inst :
       /\ ui.fu.inst[i].stage = "import"
       /\ \/ ui' = [ui EXCEPT !.fu.inst[i] =
                      PipelineFailed(Answered(@, "import", -1), Str("Failed to fetch"))]
          \/ \E resp \in ImportResponses(
                            Prop(DataProp(ui.fu.inst[i].uploadData, "file"), "uri")) :
               ui' = [ui EXCEPT !.fu.inst[i] = AfterImport(@, resp),
                                !.fu.refreshTrigger =
                                   IF ImportAnswerFailed(resp) THEN @ ELSE @ + 1]
  /\ ServerUnchanged

\* the instances whose handler is at an await
Running(insts) == SelectSeq(insts, LAMBDA f : f.stage # "idle")

\* FileUpload.tsx lines 543, 574, 597, 621-650: the modal is closed, which
\* unmounts FileUpload while its handler runs on, or opened, which mounts a
\* new FileUpload
UploadModalToggle ==
  /\ ui.fu # NoFileUpload
  /\ ui' = IF ui.modalOpen
             THEN [ui EXCEPT !.modalOpen = FALSE, !.selectedFiles = {}, !.error = Null,
                             !.deletingStore = Null, !.workflow = NoWorkflow,
                             !.fu.inst = Running(@), !.fu.cur = 0]
             ELSE [ui EXCEPT !.modalOpen = TRUE,
                             !.fu.inst = Append(Running(@), FileUploadMounted),
                             !.fu.cur = Len(Running(ui.fu.inst)) + 1]
  /\ ServerUnchanged

----------------------------------------------------------------------------
(* Two requests in flight.  Each invocation of a handler has its own locals
   (import lines 44-46, upload lines 35-37 are declared inside POST); at an await
   the runtime may go on with the other invocation. *)

\* the locals of the invocation that is running
Locals ==
  [route |-> route, request |-> request, pc |-> pc, fileName |-> fileName,
   current |-> current, currentFile |-> currentFile, attempts |-> attempts,
   response |-> response, obs |-> obs, work |-> work]

\* no request on this side
IdleLocals ==
  [route |-> "none", request |-> Undefined, pc |-> "idle", fileName |-> Undefined,
   current |-> Undefined, currentFile |-> Undefined, attempts |-> 0,
   response |-> NoResponse, obs |-> ObsInit, work |-> WorkInit]

\* where an invocation can be suspended: before it starts, at an await, after
\* its return
AwaitPoints == {"idle", "submitting", "sleeping", "refreshing", "done"}

\* variant with a slip: attempts is declared at module scope, so that both
\* invocations count in the same variable
Switch_SharedAttempts ==
  /\ Concurrent /\ pc \in AwaitPoints
  /\ other' = [Locals EXCEPT !.attempts = 0]
  /\ route' = other.route /\ request' = other.request /\ pc' = other.pc
  /\ fileName' = other.fileName /\ current' = other.current
  /\ currentFile' = other.currentFile
  /\ response' = other.response /\ obs' = other.obs /\ work' = other.work
  /\ UNCHANGED <<attempts, ui>>

\* the running invocation is suspended at an await and the other one goes on
Switch ==
  /\ Concurrent /\ pc \in AwaitPoints
  /\ other' = Locals
  /\ route' = other.route /\ request' = other.request /\ pc' = other.pc
  /\ fileName' = other.fileName /\ current' = other.current
  /\ currentFile' = other.currentFile /\ attempts' = other.attempts
  /\ response' = other.response /\ obs' = other.obs /\ work' = other.work
  /\ UNCHANGED ui

----------------------------------------------------------------------------
(* The system: requests are served one after the other; a handler keeps nothing
   from one request to the next. *)

ServerInit ==
  /\ route = "none"
  /\ request = Undefined
  /\ pc = "idle"
  /\ fileName = Undefined
  /\ current = Undefined
  /\ currentFile = Undefined
  /\ attempts = 0
  /\ response = NoResponse
  /\ obs = ObsInit
  /\ work = WorkInit

Init == ServerInit /\ other = NoOther /\ ui = UIInit

\* the response has been delivered; the handler's locals are gone
RequestEnds ==
  /\ pc = "done"
  /\ route' = "none"
  /\ request' = Undefined
  /\ pc' = "idle"
  /\ fileName' = Undefined
  /\ current' = Undefined
  /\ currentFile' = Undefined
  /\ attempts' = 0
  /\ response' = NoResponse
  /\ obs' = ObsInit
  /\ work' = WorkInit
  /\ UNCHANGED <<other, ui>>

Next ==
  \/ ImportReceive
  \/ ImportSubmitReturn
  \/ ImportLoop
  \/ ImportWake
  \/ ImportRefreshReturn
  \/ UploadReceive
  \/ UploadSubmitReturn
  \/ UploadLoop
  \/ UploadWake
  \/ UploadRefreshReturn
  \/ FileDeleteReceive
  \/ FileDeleteReturn
  \/ StoreCreateReceive
  \/ StoreCreateReturn
  \/ StoreDeleteReceive
  \/ StoreDeleteReturn
  \/ ListReceive
  \/ ListReturn
  \/ QueryReceive
  \/ QueryAnswerReturn
  \/ SlidesReceive
  \/ SlideContentReturn
  \/ PresentationCreateReturn
  \/ BatchUpdateReturn
  \/ RequestEnds

Spec == Init /\ [][Next]_vars

\* The same system with the scheduling the runtime gives a handler: a continuation
\* runs once the promise it awaits has settled, a timer fires once its delay has
\* passed, and (the proviso of the termination claim) every call to the remote
\* service returns or throws.  Nothing obliges a caller to send a request.
Fairness ==
  /\ WF_vars(ImportSubmitReturn) /\ WF_vars(ImportLoop)
  /\ WF_vars(ImportWake) /\ WF_vars(ImportRefreshReturn)
  /\ WF_vars(UploadSubmitReturn) /\ WF_vars(UploadLoop)
  /\ WF_vars(UploadWake) /\ WF_vars(UploadRefreshReturn)
FairSpec == Init /\ [][Next]_vars /\ Fairness

\* Two requests to the polling handlers in flight at once
ConcInit == ServerInit /\ other = IdleLocals /\ ui = UIInit
ConcNext ==
  \/ ImportReceive
  \/ ImportSubmitReturn
  \/ ImportLoop
  \/ ImportWake
  \/ ImportRefreshReturn
  \/ UploadReceive
  \/ UploadSubmitReturn
  \/ UploadLoop
  \/ UploadWake
  \/ UploadRefreshReturn
  \/ RequestEnds
  \/ Switch
ConcSpec == ConcInit /\ [][ConcNext]_vars

\* The page while the user manages the stores
StoreUINext ==
  \/ HomeMount
  \/ SetModalOpen
  \/ HandleStoreSelectChange
  \/ HandleDeleteStore
  \/ ConfirmAnswer
  \/ DeleteFetchReturn
  \/ ForceDeleteAnswer
  \/ ReloadReturn
StoreUISpec == Init /\ [][StoreUINext]_vars

\* The same, with stores created as well
StoreSelectNext ==
  \/ HomeMount
  \/ SetModalOpen
  \/ HandleStoreSelectChange
  \/ HandleDeleteStore
  \/ ConfirmAnswer
  \/ DeleteFetchReturn
  \/ ForceDeleteAnswer
  \/ ReloadReturn
  \/ HandleCreateStore
  \/ CreateFetchReturn
  \/ CreateReloadReturn
StoreSelectSpec == Init /\ [][StoreSelectNext]_vars

\* The page while the user checks files and sends queries
QueryUINext ==
  \/ HomeMount
  \/ SetModalOpen
  \/ HandleStoreSelectChange
  \/ HandleFileToggle
  \/ SetQuery
  \/ HandleSubmit
  \/ HandleSubmitReturn
QueryUISpec == Init /\ [][QueryUINext]_vars

\* The file-name extraction of the import handler on its own: uris built from
\* at most MaxSegments path segments
MaxSegments == 4
PathSegments == {"files", "myfiles", "a", "b", ""}
RECURSIVE JoinPath(_)
JoinPath(segs) ==
  IF Len(segs) = 1 THEN segs[1] ELSE segs[1] \o "/" \o JoinPath(Tail(segs))
ExtractUris ==
  {JoinPath(segs) : segs \in UNION {[1..n -> PathSegments] : n \in 1..MaxSegments}}
ExtractInit ==
  /\ route = "import" /\ pc = "extract" /\ fileName = Undefined
  /\ \E u \in ExtractUris :
       request = [malformed |-> FALSE, fileUri |-> Str(u), storeName |-> "fileSearchStores%2Fkb"]
  /\ current = Undefined /\ currentFile = Undefined /\ attempts = 0
  /\ response = NoResponse /\ obs = ObsInit /\ work = WorkInit
  /\ other = NoOther /\ ui = UIInit
\* import/route.ts lines 21-27 applied to the uri of the body
ExtractName ==
  /\ pc = "extract"
  /\ fileName' = ImportFileName(request.fileUri)
  /\ pc' = "extracted"
  /\ UNCHANGED <<route, request, current, currentFile, attempts, response, obs, work,
                 other, ui>>
\* lines 21-27 applied to the name they gave; current keeps that name
ExtractAgain ==
  /\ pc = "extracted"
  /\ fileName' = ImportFileName(fileName)
  /\ current' = fileName
  /\ pc' = "extractedAgain"
  /\ UNCHANGED <<route, request, currentFile, attempts, response, obs, work, other, ui>>
ExtractNext == ExtractName \/ ExtractAgain
ExtractSpec == ExtractInit /\ [][ExtractNext]_vars

\* FileUpload in the open modal, with the stores loaded and the first selected
UploadUIInit ==
  /\ ServerInit /\ other = NoOther
  /\ ui = [UIInit EXCEPT !.upc = "idle", !.modalOpen = TRUE, !.storesLoading = FALSE,
                         !.stores = RemoteStoreList({"kb", "kb2"}, 1),
                         !.selectedFileSearchStoreName = Prop(ListedStore("kb"), "name"),
                         !.fu = UploadsMounted]
UploadUINext ==
  \/ HandleStoreSelectChange
  \/ UploadModalToggle
  \/ HandleFileUpload
  \/ UploadFetchReturn
  \/ ImportFetchReturn
UploadUISpec == UploadUIInit /\ [][UploadUINext]_vars

\* FileList in the open modal, from the moment it is mounted
FileListInit ==
  /\ ServerInit /\ other = NoOther
  /\ ui = [UIInit EXCEPT !.upc = "idle", !.modalOpen = TRUE, !.storesLoading = FALSE,
                         !.fl = FileListMounted]
FileListNext ==
  \/ LoadFilesAnswered
  \/ LoadFilesReturn
  \/ HandleUploadSuccess
  \/ HandleFileToggle
  \/ HandleDelete
  \/ FileDeleteAnswered
  \/ HandleDeleteReturn
FileListSpec == FileListInit /\ [][FileListNext]_vars

----------------------------------------------------------------------------
(* Vocabulary of the claims *)

Finished == pc = "done"
\* the submission call returned an Operation: a poll session exists
Polled == obs.initialKind # "none"
NoCallThrew == \A i \in 1..Len(obs.results) : obs.results[i] # "threw"
AllPending == \A i \in 1..Len(obs.results) : obs.results[i] = "pending"
\* the Operation the handler holds
Final == IF route = "import" THEN current ELSE currentFile

Field(body, k) == IF k \in DOMAIN body THEN body[k] ELSE Undefined
IsSuccess(r) == r.status = 200 /\ Field(r.body, "success") = Bool(TRUE)
IsError(r) ==
  /\ r.status \in {400, 500}
  /\ Field(r.body, "error").t = "string"
  /\ Field(r.body, "success") = Undefined

\* a success response carrying the payload of Operation op
CarriesPayload(r, op) ==
  /\ IsSuccess(r)
  /\ IF route = "import"
       THEN /\ Field(r.body, "importedFile") = op.response
            /\ Field(r.body, "operationName") = op.name
       ELSE \A k \in {"name", "uri", "mimeType", "sizeBytes", "displayName"} :
              Prop(Field(r.body, "file"), k) = op[k]

\* the response each handler gives on a timeout
TimeoutResponse ==
  IF route = "import"
    THEN [status |-> 500, body |-> [error |-> Str("Import timeout")]]
    ELSE [status |-> 500, body |-> [error |-> Str("File processing timeout")]]

\* the message the remote supplied with a failed result: the error string itself
\* or the message property of the error object
RemoteMessage(op) ==
  IF op.error.t = "string" THEN op.error ELSE Prop(op.error, "message")

----------------------------------------------------------------------------
(* C1 *)

\* C1: for every N in 1..maxAttempts, when the first N-1 refresh results are
\* pending and the Nth is done, exactly N refresh calls are made (none follows the
\* Nth result) and the answer is the success response with the Nth result's payload.
C1_DoneOnNthRefresh ==
  \A N \in 1..maxAttempts :
    (/\ Len(obs.results) >= N
     /\ \A i \in 1..(N - 1) : obs.results[i] = "pending"
     /\ obs.results[N] = "done")
    => /\ Len(obs.results) = N
       /\ obs.refreshCalls = N
       /\ pc \in {"loop", "done"}
       /\ Finished => obs.exit = "success" /\ CarriesPayload(response, obs.last)

\* done on the very last attempt of the budget, answered with its payload
C1_Witness ==
  /\ Finished
  /\ route = "import"
  /\ Len(obs.results) = maxAttempts
  /\ obs.results[maxAttempts] = "done"
  /\ obs.refreshCalls = maxAttempts
  /\ CarriesPayload(response, obs.last)
  /\ Field(response.body, "importedFile") = Str("documents/d1")

(* C2 *)

\* C2 as stated: a session whose submitted Operation and refresh results are all
\* pending ends with a timeout after exactly maxAttempts refresh calls, and no
\* session makes more than maxAttempts refresh calls.
C2_Original ==
  /\ obs.refreshCalls <= maxAttempts
  /\ (Finished /\ Polled /\ obs.initialKind = "pending" /\ AllPending)
       => obs.exit = "timeout" /\ obs.refreshCalls = maxAttempts

\* C2 amended: the same, provided every pending file of an upload session
\* carries a name (a PROCESSING file without a name ends the upload session with
\* "File name not found" instead).
C2_TimeoutAfterMaxAttempts ==
  /\ obs.refreshCalls <= maxAttempts
  /\ (Finished /\ Polled /\ obs.initialKind = "pending" /\ AllPending /\ ~obs.unnamed)
       => /\ obs.exit = "timeout"
          /\ obs.refreshCalls = maxAttempts
          /\ response = TimeoutResponse

C2_Witness ==
  /\ Finished /\ route = "upload" /\ obs.initialKind = "pending"
  /\ AllPending /\ ~obs.unnamed
  /\ Len(obs.results) = maxAttempts
  /\ obs.exit = "timeout"

(* C3 *)

\* C3: when a refresh call returns a failed result, the handler answers with the
\* remote-failure error in that same step: the failed result is the last one, and
\* no delay or refresh call follows it.
C3_FailedStopsPolling ==
  \A i \in 1..Len(obs.results) :
    obs.results[i] = "failed"
    => /\ i = Len(obs.results)
       /\ obs.refreshCalls = i
       /\ obs.delays = i
       /\ Finished
       /\ obs.exit = "failed"
       /\ obs.responses = 1
       /\ IsError(response) /\ response.status = 500

C3_Witness ==
  /\ Finished /\ obs.exit = "failed"
  /\ Len(obs.results) = 3
  /\ obs.results[3] = "failed"
  /\ obs.refreshCalls = 3 /\ obs.delays = 3

(* C4 *)

\* C4: a timeout is reported only after exactly maxAttempts refresh calls, all of
\* which, like the submitted Operation, were pending.
C4_TimeoutOnlyWhenExhausted ==
  (Finished /\ obs.exit = "timeout")
    => /\ obs.refreshCalls = maxAttempts
       /\ Len(obs.results) = maxAttempts
       /\ AllPending
       /\ obs.initialKind = "pending"

(* C5 *)

\* C5: a success response is produced only when the Operation the handler holds
\* is no longer pending: done is set (import), the state is ACTIVE (upload).
C5_NoSuccessWhilePending ==
  (Finished /\ IsSuccess(response))
    => /\ obs.exit = "success"
       /\ route = "import" => Truthy(current.done)
       /\ route = "upload" => currentFile.state = "ACTIVE"

C5_Witness ==
  /\ Finished /\ IsSuccess(response)
  /\ route = "upload"
  /\ obs.refreshCalls = 2
  /\ currentFile.state = "ACTIVE"

(* C6 *)

\* C6: when the submitted Operation is already terminal (import: done is set;
\* upload: the state is not PROCESSING), no refresh call and no delay is made.
C6_TerminalAtSubmission ==
  (Polled /\ obs.initialTerminal)
    => /\ obs.refreshCalls = 0
       /\ obs.delays = 0
       /\ obs.slept = 0
       /\ pc \in {"loop", "done"}

C6_Witness ==
  /\ Finished /\ Polled /\ obs.initialTerminal
  /\ obs.responses = 1 /\ obs.refreshCalls = 0
  /\ IsSuccess(response)

(* C7 *)

\* C7: the response to a remote failure differs from the response to a timeout,
\* whatever message the remote supplied.
C7_FailureDiffersFromTimeout ==
  (Finished /\ obs.exit = "failed") => response # TimeoutResponse

(* C8 *)

\* C8: the import handler answers success only for an Operation without error.
C8_NoSuccessWithError ==
  (Finished /\ route = "import" /\ IsSuccess(response)) => ~Truthy(current.error)

(* C9 *)

\* C9 as stated: the error of a remote-failure response is the remote-supplied
\* message unchanged, the empty message included.
C9_Original ==
  (Finished /\ obs.exit = "failed" /\ RemoteMessage(obs.last).t = "string")
    => Field(response.body, "error") = RemoteMessage(obs.last)

\* C9 amended: the error of a remote-failure response is the remote-supplied
\* message unchanged when that message is not empty; an empty or absent message
\* is replaced (upload: "File processing failed"; import: the JSON text of the
\* error object).
C9_MessageVerbatim ==
  (Finished /\ obs.exit = "failed")
    => LET m == RemoteMessage(obs.last)
       IN IF Truthy(m)
            THEN Field(response.body, "error") = m
          ELSE IF route = "upload"
            THEN Field(response.body, "error") = Str("File processing failed")
          ELSE Field(response.body, "error") = JsonStringify(obs.last.error)

C9_Witness ==
  /\ Finished /\ obs.exit = "failed"
  /\ route = "import"
  /\ obs.last.error = Obj([message |-> Str("quota exceeded")])
  /\ response = [status |-> 500, body |-> [error |-> Str("quota exceeded")]]

(* C10 *)

\* C10 as stated: a poll session, none of whose calls threw, ends with exactly
\* one response, which is the success, the remote failure or the timeout.
C10_Original ==
  /\ obs.responses <= 1
  /\ (Finished /\ Polled /\ NoCallThrew)
       => obs.responses = 1 /\ obs.exit \in {"success", "failed", "timeout"}

\* C10 amended: a poll session ends with exactly one response, which is one of
\* five: the success, the remote failure, the timeout, in the upload handler when
\* a PROCESSING file carries no name the "File name not found" error, or, when the
\* submission or a refresh call throws, the error with the thrown message.
C10_ExactlyOneOutcome ==
  /\ obs.responses = (IF Finished THEN 1 ELSE 0)
  /\ (Finished /\ obs.submitCalls = 1)
       => /\ obs.exit \in {"success", "failed", "timeout", "noname", "threw"}
          /\ obs.exit = "success" => IsSuccess(response)
          /\ obs.exit # "success" => IsError(response) /\ response.status = 500
          /\ obs.exit = "timeout" => response = TimeoutResponse
          /\ obs.exit = "noname"
               => /\ route = "upload" /\ obs.unnamed
                  /\ response = [status |-> 500, body |-> [error |-> Str("File name not found")]]
          /\ obs.exit = "threw"
               => /\ ~Polled \/ ~NoCallThrew
                  /\ \E e \in Thrown : response = [status |-> 500, body |-> [error |-> e.message]]
          /\ (Polled /\ NoCallThrew) => obs.exit # "threw"

C10_Witness ==
  /\ Finished /\ Polled /\ NoCallThrew
  /\ obs.exit = "noname"
  /\ obs.refreshCalls = 1

----------------------------------------------------------------------------
(* C11 *)
\* C11: provided every submission and refresh call returns, every request that
\* reached the submission call ends with a response; every refresh result that
\* sends the handler back to the loop condition has added one to attempts, and
\* attempts never passes maxAttempts.
C11_EverySessionEnds ==
  /\ (obs.submitCalls = 1) ~> (Finished /\ obs.responses = 1)
  /\ [][(pc = "refreshing" /\ pc' = "loop")
          => (attempts' = attempts + 1 /\ attempts' <= maxAttempts)]_vars

\* a session that used the whole budget and ended
C11_Witness ==
  /\ Finished /\ Polled /\ obs.responses = 1
  /\ attempts = maxAttempts /\ obs.refreshCalls = maxAttempts

----------------------------------------------------------------------------
(* C12 *)
DelayMs == IF route = "import" THEN importDelayMs ELSE uploadDelayMs

\* C12: in a session every refresh call is made after exactly one completed delay
\* of the handler's fixed length, and that delay started when no call was
\* outstanding and every earlier refresh call had returned: delays and refresh
\* calls alternate, the delay first.
C12_DelayBeforeEachRefresh ==
  /\ obs.slept = obs.delays * DelayMs
  /\ obs.refreshCalls <= obs.delays
  /\ obs.delays <= obs.sleepStarts
  /\ obs.sleepStarts <= obs.refreshCalls + 1
  /\ pc = "sleeping" =>
       /\ obs.outstanding = 0
       /\ obs.sleepStarts = Len(obs.results) + 1
       /\ obs.delays = obs.sleepStarts - 1
  /\ pc = "refreshing" =>
       /\ obs.delays = obs.refreshCalls
       /\ obs.sleepStarts = obs.refreshCalls

\* the third refresh call of a session is outstanding
C12_Witness ==
  /\ pc = "refreshing" /\ obs.refreshCalls = 3 /\ obs.delays = 3
  /\ obs.slept = 3 * DelayMs

----------------------------------------------------------------------------
(* C13 *)
\* C13: in a session at most one call to the remote service is outstanding; while
\* a delay runs none is, and a refresh call is outstanding only when every
\* earlier one has returned.
C13_OneRefreshOutstanding ==
  /\ obs.outstanding \in {0, 1}
  /\ pc = "sleeping" => obs.outstanding = 0 /\ obs.refreshCalls = Len(obs.results)
  /\ pc = "refreshing" =>
       obs.outstanding = 1 /\ obs.refreshCalls = Len(obs.results) + 1
  /\ pc \in {"loop", "done"} =>
       obs.outstanding = 0 /\ obs.refreshCalls = Len(obs.results)

\* the second refresh call is outstanding, the first having returned
C13_Witness ==
  /\ pc = "refreshing" /\ obs.refreshCalls = 2 /\ Len(obs.results) = 1
  /\ obs.outstanding = 1

----------------------------------------------------------------------------
(* C15 *)
\* the name a success response reports
ReportedName(r) ==
  IF route = "import" THEN Field(r.body, "operationName")
  ELSE Prop(Field(r.body, "file"), "name")

\* C15 as stated: every refresh call is keyed by the name the submission call
\* returned, and a success response reports that name.
C15_Original ==
  /\ obs.refreshCalls > 0 => obs.lastKey = obs.initialName
  /\ (Finished /\ Polled /\ IsSuccess(response)) =>
       ReportedName(response) = obs.initialName

\* C15 (amended): every refresh call is keyed by the name of the Operation the
\* handler holds when it makes the call, and a success response reports the
\* name of the Operation held at the end; both are the name the submission call
\* returned as long as no refresh result carried another name.
C15_NameOfLatestResult ==
  /\ pc = "refreshing" => obs.lastKey = Final.name
  /\ (Finished /\ Polled /\ IsSuccess(response)) =>
       ReportedName(response) = Final.name
  /\ ~obs.renamed => C15_Original

\* a session whose refresh results changed the name, ended in success
C15_Witness ==
  /\ Finished /\ IsSuccess(response) /\ obs.renamed
  /\ obs.refreshCalls >= 2
  /\ obs.lastKey # obs.initialName
  /\ ReportedName(response) # obs.initialName

----------------------------------------------------------------------------
(* C16 *)
Blank(s) == \A i \in 1..Len(s) : Char(s, i) = " "

\* the request was read and lacks the input its handler requires
MissingInput ==
  CASE route = "upload" -> ~request.malformed /\ ~request.file.present
    [] route = "import" -> ~request.malformed /\ request.fileUri \in {Undefined, Str("")}
    [] route = "query" ->
         /\ ~request.malformed
         /\ \/ request.query \in {Undefined, Str("")}
            \/ request.fileSearchStoreNames \in {Undefined, Str(""), Arr(<< >>)}
    [] route \in {"fileDelete", "storeDelete"} -> request.name \in {Null, Str("")}
    [] route = "slides" ->
         /\ ~request.malformed
         /\ \/ request.topic \in {Undefined, Null}
            \/ request.topic.t = "string" /\ Blank(request.topic.v)
    [] OTHER -> FALSE

NoExternalCall == \A c \in ExternalCalls : obs.calls[c] = 0

\* C16: a request that lacks the input its handler requires is answered with
\* status 400 and an error message, and no call to a remote service is made for it.
C16_MissingInputRefused ==
  (route # "none" /\ MissingInput) =>
    /\ Finished
    /\ response.status = 400
    /\ Truthy(Field(response.body, "error"))
    /\ NoExternalCall /\ obs.outstanding = 0

\* a query with a question and an empty list of stores was refused
C16_Witness ==
  /\ route = "query" /\ Finished /\ MissingInput
  /\ request.query = Str("what?") /\ request.fileSearchStoreNames = Arr(<< >>)
  /\ response.status = 400 /\ NoExternalCall

----------------------------------------------------------------------------
(* C17 *)
SubmissionCalls ==
  {"files.upload", "fileSearchStores.importFile", "generateContent.answer",
   "files.delete", "fileSearchStores.create", "fileSearchStores.delete"}

\* C17: for one request each submission call is issued at most once, and once
\* the handler has answered with a remote failure, a timeout, a thrown error or
\* a refusal of unusable content, no call is issued for that request any more.
C17_NoRetry ==
  /\ [](\A c \in SubmissionCalls : obs.calls[c] <= 1)
  /\ [][obs.exit \in {"failed", "timeout", "threw", "rejected"}
          => \A c \in ExternalCalls : obs'.calls[c] <= obs.calls[c]]_vars

\* an upload that timed out after one submission and the whole budget of refreshes
C17_Witness ==
  /\ route = "upload" /\ Finished /\ obs.exit = "timeout"
  /\ obs.calls["files.upload"] = 1 /\ obs.calls["files.get"] = maxAttempts

----------------------------------------------------------------------------
(* C18 *)
\* something failed while the request was handled: a call threw, the remote
\* service reported a failure, the budget ran out, or input was missing
FailureInside ==
  \/ obs.exit \in {"threw", "failed", "timeout", "invalid", "noname", "rejected"}
  \/ obs.initialKind = "failed"
  \/ \E i \in 1..Len(obs.results) : obs.results[i] \in {"failed", "threw"}

\* C18: a request during which something failed is answered with status 400 or
\* 500 and a non-empty error message, never with success; success: true occurs
\* only in responses of status 200.
C18_FailuresAreReported ==
  /\ (Finished /\ FailureInside) =>
       /\ response.status \in {400, 500}
       /\ Field(response.body, "error").t = "string"
       /\ Field(response.body, "error").v # ""
       /\ Field(response.body, "success") # Bool(TRUE)
  /\ Field(response.body, "success") = Bool(TRUE) => response.status = 200
  /\ pc = "done" \/ response = NoResponse

----------------------------------------------------------------------------
(* C14 *)
Held(s) == IF s.route = "import" THEN s.current ELSE s.currentFile
KindOf(s, op) == IF s.route = "import" THEN ImportKind(op) ELSE UploadKind(op)
ResultsIn(s) == {i \in 1..Len(s.obs.results) : s.obs.results[i] # "threw"}
\* the Operation held is complete: done is set (import), the file is ACTIVE (upload)
Complete(s) ==
  IF s.route = "import" THEN Truthy(s.current.done) ELSE s.currentFile.state = "ACTIVE"

\* what one invocation holds follows from the results of its own calls alone
OwnResultsOnly(s) ==
  /\ s.pc = "idle" => s = IdleLocals
  /\ s.obs.initialKind # "none" =>
       /\ s.attempts = Cardinality(ResultsIn(s))
       /\ s.obs.refreshCalls = Len(s.obs.results) + (IF s.pc = "refreshing" THEN 1 ELSE 0)
       /\ IF ResultsIn(s) = {}
            THEN /\ Held(s).name = s.obs.initialName
                 /\ KindOf(s, Held(s)) = s.obs.initialKind
            ELSE Held(s) = s.obs.last
       /\ s.pc = "done" =>
            CASE s.obs.exit = "success" ->
                   /\ Complete(s)
                   /\ s.response = IF s.route = "import" THEN ImportSuccess(Held(s))
                                   ELSE UploadSuccess(Held(s))
              [] s.obs.exit = "failed" ->
                   /\ KindOf(s, s.obs.last) = "failed"
                   /\ s.response =
                        IF s.route = "import"
                          THEN ImportCatch(ErrorOf(ImportErrorMessage(s.obs.last.error)))
                          ELSE UploadFailure(s.obs.last)
              [] s.obs.exit = "timeout" ->
                   /\ ~Complete(s)
                   /\ s.response = IF s.route = "import"
                                     THEN ImportCatch(ErrorOf(Str("Import timeout")))
                                     ELSE UploadTimeout
              [] OTHER -> s.obs.exit \in {"threw", "noname"} /\ s.response.status = 500

\* C14: with two requests in flight, the attempt counter, the Operation held and
\* the response of each follow from the results of its own calls, as for a
\* request served alone; an invocation that has not started holds nothing.
C14_SessionsIndependent ==
  Concurrent => (OwnResultsOnly(Locals) /\ OwnResultsOnly(other))

\* both requests are in their poll loops, with different numbers of attempts
C14_Witness ==
  /\ Concurrent
  /\ pc = "refreshing" /\ other.pc = "sleeping"
  /\ route = "import" /\ other.route = "upload"
  /\ attempts = 2 /\ other.attempts = 5

----------------------------------------------------------------------------
(* The store-delete workflow of the page *)

\* the requests of the workflow that the handler reads as forced
ForcedSent ==
  {i \in DOMAIN ui.workflow.sent : StoreDeleteForce(StoreDeleteParse(ui.workflow.sent[i]))}
\* the force dialogs the user agreed to, and those after which the user also
\* agreed to the delete dialog that is shown again
ForceYes ==
  {i \in DOMAIN ui.workflow.dialogs : ui.workflow.dialogs[i] = [d |-> "force", yes |-> TRUE]}
Reconfirmed ==
  {i \in ForceYes : /\ i + 1 \in DOMAIN ui.workflow.dialogs
                    /\ ui.workflow.dialogs[i + 1] = [d |-> "delete", yes |-> TRUE]}
ForceDialogs == {i \in DOMAIN ui.workflow.dialogs : ui.workflow.dialogs[i].d = "force"}

\* reply i reports a failure
Failing(i) == ~IsOk(ui.workflow.replies[i].resp)
\* the text the remote service gave with the failure behind reply i: the message
\* of the Error thrown; none when the fetch was rejected or no Error was thrown
RemoteText(i) ==
  LET remote == ui.workflow.replies[i].remote
  IN IF remote.t = "Error" THEN remote.message ELSE Undefined
\* the failures whose remote text names a store that is not empty
MatchingReplies ==
  {i \in DOMAIN ui.workflow.replies : Failing(i) /\ NonEmptyStoreText(RemoteText(i))}
\* the text the page shows for the failure behind reply i
ShownText(i) ==
  IF ui.workflow.replies[i].remote = Str("none") THEN Str("Failed to fetch")
  ELSE Or(RemoteText(i), Str("Failed to delete store"))

\* what the claim and its amended form have in common
C19_Common ==
  \* the user is asked for every failure whose remote text matches, and for no other
  /\ Cardinality(ForceDialogs) + (IF ui.upc = "forceAsk" THEN 1 ELSE 0)
       = Cardinality(MatchingReplies)
  /\ ui.upc = "forceAsk" => Len(ui.workflow.replies) \in MatchingReplies
  \* after any other failure nothing more is sent and the error is shown
  /\ \A i \in DOMAIN ui.workflow.replies :
       Failing(i) /\ i \notin MatchingReplies =>
         /\ i = Len(ui.workflow.replies) /\ Len(ui.workflow.sent) = i
         /\ ui.upc = "idle" /\ ui.error = ShownText(i)
  \* so is it when the user declines the force dialog
  /\ ui.workflow.dialogs # << >> /\
     ui.workflow.dialogs[Len(ui.workflow.dialogs)] = [d |-> "force", yes |-> FALSE] =>
       /\ ui.upc = "idle" /\ ui.error = ShownText(Len(ui.workflow.replies))
       /\ Len(ui.workflow.sent) = Len(ui.workflow.replies)
  \* the first request is not forced, every request names the store clicked
  /\ 1 \notin ForcedSent
  /\ \A i \in DOMAIN ui.workflow.sent :
       StoreDeleteParse(ui.workflow.sent[i]).name = ui.storeName
  \* the handler passes the message of the remote Error through, with status 500
  /\ \A i \in DOMAIN ui.workflow.replies :
       ui.workflow.replies[i].remote.t = "Error" =>
         /\ ui.workflow.replies[i].resp.status = 500
         /\ DataProp(ui.workflow.replies[i].resp.body, "error") = RemoteText(i)

\* C19 as stated: in the store-delete workflow the user is asked to confirm when
\* a delete fails with a text that names a non-empty store; once the user has
\* agreed, the delete has been sent again with force=true; after any other failure
\* no forced delete is sent and the error is shown; the handler passes the remote
\* message through.
C19_Original ==
  /\ C19_Common
  /\ ui.upc = "idle" => Cardinality(ForcedSent) = Cardinality(ForceYes)

\* C19, amended: as above, but the delete is sent again with force=true only
\* once the user has also agreed to the delete dialog, which is shown again
\* after the force dialog; declined there, nothing is sent.
C19_ForcedAfterBothDialogs ==
  /\ C19_Common
  /\ Cardinality(ForcedSent) = Cardinality(Reconfirmed)
  /\ Len(ui.workflow.sent) = 1 + Cardinality(ForcedSent) \/ ui.workflow.sent = << >>

\* a forced delete, sent after both dialogs, has succeeded
C19_Witness ==
  /\ ui.upc = "reloading"
  /\ ForcedSent = {2}
  /\ MatchingReplies = {1}

----------------------------------------------------------------------------
(* Queries and the files checked in the file list *)

\* what the request of query i makes the handler search: the argument of its
\* call to the model
ScopeOf(i) == QueryArgument(ui.queries[i].body)

\* C20: a query searches the files the user has checked: two queries sent with
\* the same text and the same store selected, but with different files checked
\* in the file list, make the handler search different scopes.
C20_CheckedFilesScopeTheQuery ==
  \A i, j \in DOMAIN ui.queries :
    /\ ui.queries[i].checked # ui.queries[j].checked
    /\ ui.queries[i].typed = ui.queries[j].typed
    /\ ui.queries[i].store = ui.queries[j].store
    => ScopeOf(i) # ScopeOf(j)

----------------------------------------------------------------------------
(* Polling an Operation that is already complete *)

\* import lines 44-76 run on op: let current = op, attempts = 0; the number of
\* refresh calls is 0 when the loop is not entered (more than 0 otherwise, in
\* which case the response depends on what the calls return)
ImportPollAgain(op) ==
  IF ImportLoopGuard(op, 0) THEN [entered |-> TRUE, response |-> NoResponse]
  ELSE [entered |-> FALSE,
        response |-> IF ImportTimedOut(op)
                       THEN ImportCatch(ErrorOf(Str("Import timeout")))
                       ELSE ImportSuccess(op)]

\* upload lines 35-76 run on file
UploadPollAgain(file) ==
  IF UploadLoopGuard(file, 0) THEN [entered |-> TRUE, response |-> NoResponse]
  ELSE [entered |-> FALSE,
        response |-> IF UploadTimedOut(file) THEN UploadTimeout ELSE UploadSuccess(file)]

----------------------------------------------------------------------------
(* The batch sent to the presentation service *)

\* the requests of the batch update that has been sent, and the slides they are for
BatchSent == obs.calls["presentations.batchUpdate"] = 1
BatchRequests == obs.submitted.items
BatchSlides == Prop(work.slideData, "slides").items
\* the object ids the batch creates
CreatedIds ==
  {i \in DOMAIN BatchRequests : Prop(BatchRequests[i], "createSlide") # Undefined}
\* what a success response says about the presentation
PresentationOf(resp) ==
  IF route = "query" THEN Prop(DataProp(resp.body, "slides"), "presentationId")
  ELSE DataProp(resp.body, "presentationId")
PresentationUrlOf(resp) ==
  IF route = "query" THEN Prop(DataProp(resp.body, "slides"), "presentationUrl")
  ELSE DataProp(resp.body, "presentationUrl")

----------------------------------------------------------------------------
(* FileList: the selection around a delete, and the list after several loads *)

\* the uri of the file a successful delete removed
DeletedUris ==
  {Prop(ListedFile(n), "uri").v :
     n \in {m \in AllFiles : Prop(ListedFile(m), "name") = ui.fl.lastDelete.fileName}}

\* C23: a successful delete of a file takes only that file's uri out of the
\* selection; the selection of every other file, as it stands when the response
\* of the delete arrives (toggles made while the request was in flight
\* included), is left as it is.
C23_DeleteKeepsOtherSelections ==
  (ui.fl # NoFileList /\ ui.fl.lastDelete # NoDelete) =>
    ui.fl.lastDelete.after = ui.fl.lastDelete.before \ DeletedUris

\* C24: when all list requests have completed, the list displayed is the result
\* of the most recently issued one, and at no moment has the successful response
\* of an earlier request replaced that of a later one.
C24_LatestLoadShown ==
  (ui.fl # NoFileList /\ ui.fl.arrived # {}) =>
    /\ \A id \in ui.fl.arrived : id <= ui.fl.shownFrom
    /\ (ui.fl.loads = {} /\ ui.fl.issued \in ui.fl.arrived) =>
          ui.fl.shownFrom = ui.fl.issued

----------------------------------------------------------------------------
(* The number of requests of one store deletion, and the store selected *)

\* C25: one store deletion started by the user sends at most two DELETE
\* requests, one not forced and at most one forced; the failure of a forced
\* delete is reported as an error and no further retry is offered.
C25_AtMostTwoDeletes ==
  /\ Len(ui.workflow.sent) <= 2
  /\ ui.upc = "forceAsk" => Len(ui.workflow.replies) = 1
  /\ \A i \in DOMAIN ui.workflow.replies :
       (i >= 2 /\ Failing(i)) => ui.upc = "idle" /\ ui.error = ShownText(i)

\* C26: whenever no load, create or delete of stores is in flight, the store
\* selected is null or the name of a store in the list Home holds.
C26_SelectedStoreIsListed ==
  ui.upc = "idle" =>
    \/ ui.selectedFileSearchStoreName = Null
    \/ ui.selectedFileSearchStoreName \in StoreNamesShown(ui)

----------------------------------------------------------------------------
(* C27, C28: the upload-then-import pipeline of FileUpload *)

\* the FileUploads of the page: the mounted one and those unmounted on the way
Instances == {ui.fu.inst[i] : i \in DOMAIN ui.fu.inst}

OkStatus(status) == status >= 200 /\ status <= 299
\* the request req of f's pipeline was answered OK before position k of its log
OkBefore(f, req, k) ==
  \E j \in 1..(k - 1) : f.log[j].req = req /\ OkStatus(f.log[j].status)
\* a request of f's pipeline was rejected or answered with a failure
RequestFailed(f) ==
  \E j \in DOMAIN f.log :
    /\ f.log[j].req \in {"upload", "import"}
    /\ f.log[j].status # 0 /\ ~OkStatus(f.log[j].status)
Notified(f) == \E j \in DOMAIN f.log : f.log[j].req = "onUploadSuccess"

\* C27: in every pipeline the import request is sent only after the upload
\* request was answered OK; the success message is set and onUploadSuccess is
\* called only after both requests were answered OK; and when either request
\* fails the handler sets an error message, sets no success message and does
\* not call onUploadSuccess
C27_UploadThenImport ==
  \A f \in Instances :
    /\ \A k \in DOMAIN f.log :
         /\ f.log[k].req = "import" => OkBefore(f, "upload", k)
         /\ f.log[k].req = "onUploadSuccess" =>
              OkBefore(f, "upload", k) /\ OkBefore(f, "import", k)
    /\ f.success # Null =>
         OkBefore(f, "upload", Len(f.log)) /\ OkBefore(f, "import", Len(f.log))
    /\ RequestFailed(f) => f.error # Null /\ f.success = Null /\ ~Notified(f)
C27_Witness ==
  \E f \in Instances : f.success # Null /\ Notified(f) /\ ui.fu.refreshTrigger = 1

\* C28, as stated: at most one pipeline is in flight at any time
C28_Original == Cardinality({i \in DOMAIN ui.fu.inst : ui.fu.inst[i].stage # "idle"}) <= 1
\* C28, amended: each FileUpload that was mounted has at most one pipeline in
\* flight at any time, its uploading is true exactly while its pipeline is in
\* flight, so false again once the pipeline has ended on whichever path, and
\* the file input of the mounted one is disabled while its uploading is true
C28_OnePipelinePerInstance ==
  /\ \A f \in Instances :
       /\ f.inFlight \in {0, 1}
       /\ f.uploading <=> f.inFlight = 1
       /\ f.uploading <=> f.stage # "idle"
  /\ ui.fu.cur # 0 /\ ui.fu.inst[ui.fu.cur].uploading =>
       FileInputDisabled(ui.fu.inst[ui.fu.cur], ui.selectedFileSearchStoreName)
\* a second pipeline has been through upload failure or import failure and the
\* first through success or the thrown fetch, and one is in flight again
C28_Witness ==
  /\ ui.fu.started = 2 /\ ui.fu.cur # 0
  /\ ui.fu.inst[ui.fu.cur].uploading /\ ui.fu.inst[ui.fu.cur].stage = "import"

----------------------------------------------------------------------------
(* C29: the file name the import handler passes on *)

\* the name the claim gives: "files/" and the path segment that follows the
\* first "/files/" of the uri; the uri itself if it has no "/files/"
FirstFilesAt(s) ==
  CHOOSE i \in 1..Len(s) :
    /\ SubSeq(s, i, i + 6) = "/files/"
    /\ \A j \in 1..(i - 1) : SubSeq(s, j, j + 6) # "/files/"
SegmentFrom(s, i) ==
  IF \E j \in i..Len(s) : Char(s, j) = "/"
    THEN SubSeq(s, i, (CHOOSE j \in i..Len(s) :
                         Char(s, j) = "/" /\ \A k \in i..(j - 1) : Char(s, k) # "/") - 1)
    ELSE SubSeq(s, i, Len(s))
ClaimedName(uri) ==
  IF Includes(uri.v, "/files/")
    THEN Str("files/" \o SegmentFrom(uri.v, FirstFilesAt(uri.v) + 7))
    ELSE uri

\* C29: the name passed to importFile is "files/<id>" with <id> the segment
\* that follows the first "/files/" of the uri, the uri itself when it has no
\* "/files/", and extracting again from the name gives the same name
C29_NameIsFirstFilesSegment ==
  /\ pc = "extracted" => fileName = ClaimedName(request.fileUri)
  /\ pc = "extractedAgain" =>
       current = ClaimedName(request.fileUri) /\ fileName = current
\* the parts of C29 that hold: without "/files/" the uri is passed unchanged,
\* and extracting again changes nothing
C29_UnchangedAndIdempotent ==
  /\ pc = "extracted" /\ ~Includes(request.fileUri.v, "/files/") =>
       fileName = request.fileUri
  /\ pc = "extractedAgain" => fileName = current

----------------------------------------------------------------------------
(* C30: the query handler with and without createSlides *)

\* a query request whose body was read: createSlides is bound (line 200)
QueryRead == route = "query" /\ ~request.malformed
SlideCalls ==
  obs.calls["generateContent.slides"] + obs.calls["presentations.create"]
    + obs.calls["presentations.batchUpdate"]
RECURSIVE CallsTo(_)
CallsTo(methods) ==
  IF methods = {} THEN 0
  ELSE LET c == CHOOSE x \in methods : TRUE IN obs.calls[c] + CallsTo(methods \ {c})
AllCalls == CallsTo(ExternalCalls)
BothSlideStepsSucceeded ==
  /\ obs.calls["generateContent.slides"] = 1
  /\ obs.calls["presentations.create"] = 1
  /\ obs.calls["presentations.batchUpdate"] = 1
  /\ obs.outstanding = 0 /\ obs.exit = "success"
  /\ work.slideData # Undefined /\ work.presentationId # Undefined
SlidesIffAsked ==
  QueryRead /\ Finished /\ response.status = 200 =>
    /\ "slides" \in DOMAIN response.body <=> Truthy(request.createSlides)
    /\ Truthy(request.createSlides) =>
         BothSlideStepsSucceeded /\ response.body.answer = work.answer.answer

\* C30, as stated: a 200 response has slides exactly when createSlides was
\* truthy; with createSlides falsy the handler makes exactly one external call,
\* the answer generateContent, and no slide call; with createSlides truthy the
\* answer is returned only if both slide steps succeeded
C30_Original ==
  /\ SlidesIffAsked
  /\ QueryRead /\ ~Truthy(request.createSlides) => SlideCalls = 0
  /\ QueryRead /\ Finished /\ ~Truthy(request.createSlides) =>
       AllCalls = 1 /\ obs.calls["generateContent.answer"] = 1
\* C30, amended: the same, where exactly one external call is made for a
\* request that passes validation and none for one refused with status 400
C30_SlidesOnlyWhenAsked ==
  /\ SlidesIffAsked
  /\ QueryRead /\ ~Truthy(request.createSlides) => SlideCalls = 0
  /\ QueryRead /\ Finished /\ ~Truthy(request.createSlides) =>
       /\ AllCalls = obs.calls["generateContent.answer"]
       /\ AllCalls = (IF QueryRefusal(request) = NoResponse THEN 1 ELSE 0)
       /\ QueryRefusal(request) # NoResponse => response.status = 400
C30_Witness ==
  /\ QueryRead /\ Finished /\ response.status = 200
  /\ Truthy(request.createSlides) /\ "slides" \in DOMAIN response.body

====
